---- MODULE Spec2Model ----
(***************************************************************************)
(* A model of tartufo's scanning engine (src/tartufo/scanner.py):          *)
(*   - ScannerBase.scan / ScannerBase.issues: the lock-guarded, cached     *)
(*     scan generator and its readers (specification Spec);                *)
(*   - ScannerBase.should_scan: path filtering (specification SpecFilter); *)
(*   - GitRepoScanner.chunks: the git history chunk producer               *)
(*     (specification SpecGit);                                            *)
(*   - GitRepoScanner.load_repo, GitScanner.filter_submodules: the         *)
(*     construction of the producer (specification SpecSubmodule);         *)
(*   - scan_regex, scan_entropy, excluded_signatures: the detectors called *)
(*     one at a time (specification SpecDetect);                           *)
(*   - Issue.signature (specification SpecSignature);                      *)
(*   - the cached entropy limits (specification SpecLimits) and            *)
(*     rule_matches (specification SpecRule);                              *)
(*   - scan and issues under fair scheduling (specification SpecLive);     *)
(*   - several engine instances under the class-level lock                 *)
(*     (specification SpecInstances).                                      *)
(***************************************************************************)
EXTENDS Integers, Sequences, FiniteSets, TLC

(***************************************************************************)
(* Bounds of the engine model.                                             *)
(***************************************************************************)
\* Number of calls of scan() / issues made on the one engine instance.
NumCalls == 2
\* Number of chunks the producer (self.chunks) yields.
NumChunks == 2

\* Number of engine instances, each scanned by a thread of its own, and
\* the number of scan() calls a thread makes.
NumEngines == 2
MaxScans == 2

Calls == 1..NumCalls
Engines == 1..NumEngines
NoCall == 0
RuleNames == {"rule1"}
Outcomes == {"none", "returned", "closed", "config_error", "repo_error"}
Errors == {"config_error", "repo_error"}

VARIABLES
    \* global_options.entropy, global_options.regex, the resolved rule set
    entropy, regex, rules_regexes,
    \* ScannerBase._completed, ScannerBase._issues, ScannerBase._scan_lock
    completed, issues, scan_lock,
    \* per call: position, kind of call ("scan" generator or "issues" read),
    \* branch of scan taken, next() calls made on self.chunks, findings of
    \* the current chunk not yet yielded, issues yielded to the caller, the
    \* list the issues property returned, how the call ended
    pc, kind, mode, pulls, pending, emitted, result, outcome,
    \* per call, recorded at call time: the holder of the lock while
    \* _completed was false, and whether a scan() had been fully consumed
    blockedBehind, priorReturned,
    \* several engine instances, one thread scanning each, under the one
    \* class attribute _scan_lock: each thread's position and number of
    \* scan() calls, each instance's _completed and _issues, and the chunks
    \* its producer has left
    thread_pc, thread_scans, instance_completed, instance_issues,
    instance_chunks,
    \* global_options.include_path_patterns / exclude_path_patterns
    include_path_patterns, exclude_path_patterns,
    \* ScannerBase._included_paths, ScannerBase._excluded_paths
    included_paths, excluded_paths,
    \* how many times each of the two fields was assigned so far
    field_writes,
    \* the lru_cache of should_scan, and the last value should_scan returned
    should_scan_cache, should_scan_result,
    \* the repository: each commit's parent ids (0: a parent that is not
    \* present locally), each branch's target (-1: no such branch, 0: a
    \* branch that cannot be resolved)
    parents, branch_tip,
    \* git_options.branch, global_options.scan_filenames
    git_branch, scan_filenames,
    \* the paths of the repository's submodules, git_options.include_submodules,
    \* the configuration file of the repository (load_config_from_path)
    submodules, include_submodules, repo_config,
    \* GitRepoScanner.chunks: position, `branches`, index of branch_name in
    \* it, commits the walk has returned, curr_commit, already_searched, the
    \* patches of the current diff not yet iterated, the (parent, commit)
    \* pair of the current diff, the chunks yielded so far
    gpc, branches, bidx, walked, curr_commit, already_searched, delta_queue,
    cur_diff, yielded,
    \* the calls made for diffs, in order: self._repo.diff, diff.find_similar
    \* and the iteration of the patches, with the (parent, commit) pair
    diff_log,
    \* global_options.exclude_signatures, config_data["exclude_signatures"],
    \* ScannerBase._excluded_signatures, the DeprecationWarnings emitted
    exclude_signatures, config_data, excluded_signatures, warnings,
    \* global_options.exclude_entropy_patterns (compiled), entropy_sensitivity,
    \* hex_entropy_score, b64_entropy_score
    exclude_entropy_patterns, entropy_sensitivity, hex_entropy_score,
    b64_entropy_score,
    \* what cached_property holds for hex_entropy_limit and b64_entropy_limit
    entropy_limit_cache,
    \* the last detector call made directly, with what it returned
    det_result

engineVars == <<entropy, regex, rules_regexes, completed, issues, scan_lock,
                pc, kind, mode, pulls, pending, emitted, result, outcome,
                blockedBehind, priorReturned>>

filterVars == <<include_path_patterns, exclude_path_patterns, included_paths,
                excluded_paths, field_writes, should_scan_cache,
                should_scan_result>>

gitVars == <<parents, branch_tip, git_branch, scan_filenames, submodules,
             include_submodules, repo_config, gpc, branches, bidx, walked,
             curr_commit, already_searched, delta_queue, cur_diff, yielded,
             diff_log>>

detectOptions == <<exclude_signatures, config_data, exclude_entropy_patterns,
                   entropy_sensitivity, hex_entropy_score, b64_entropy_score>>

detectVars == <<detectOptions, excluded_signatures, warnings,
               entropy_limit_cache, det_result>>

instanceVars == <<thread_pc, thread_scans, instance_completed,
                  instance_issues, instance_chunks>>

vars == <<engineVars, filterVars, gitVars, detectVars, instanceVars>>

(***************************************************************************)
(* Sequences.                                                              *)
(***************************************************************************)
RECURSIVE SetToSeq(_)
SetToSeq(S) ==
    IF S = {} THEN <<>>
    ELSE LET x == CHOOSE y \in S : TRUE IN <<x>> \o SetToSeq(S \ {x})

RECURSIVE Flatten(_)
Flatten(ss) == IF ss = <<>> THEN <<>> ELSE Head(ss) \o Flatten(Tail(ss))

(***************************************************************************)
(* Strings, patterns and rules.  A string is a sequence of one-character   *)
(* strings.  A compiled content pattern is a character class repeated,     *)
(* `[...]+` (the form of BASE64_REGEX and HEX_REGEX), given by its set of  *)
(* characters.                                                             *)
(***************************************************************************)
\* HEX_REGEX and BASE64_REGEX, over the characters of the model.
HEX_REGEX == {"a", "b"}
BASE64_REGEX == {"a", "b", "g", "h"}
Whitespace == {" ", "\n"}

\* The length of the longest prefix of text made of characters of pattern.
RECURSIVE RunLength(_, _)
RunLength(pattern, text) ==
    IF text = <<>> \/ Head(text) \notin pattern THEN 0
    ELSE 1 + RunLength(pattern, Tail(text))

\* pattern.findall(text): the non-overlapping matches, left to right.
RECURSIVE findall(_, _)
findall(pattern, text) ==
    IF text = <<>> THEN <<>>
    ELSE IF Head(text) \notin pattern THEN findall(pattern, Tail(text))
    ELSE LET n == RunLength(pattern, text)
         IN  <<SubSeq(text, 1, n)>>
             \o findall(pattern, SubSeq(text, n + 1, Len(text)))

\* pattern.match(scope) / pattern.search(scope) is not None.
pattern_match(pattern, scope) == scope # <<>> /\ Head(scope) \in pattern
pattern_search(pattern, scope) == \E i \in 1..Len(scope) : scope[i] \in pattern

\* text.split("\n"): the lines of text, empty ones included.
RECURSIVE split_lines(_)
split_lines(text) ==
    LET breaks == {i \in 1..Len(text) : text[i] = "\n"}
    IN  IF breaks = {} THEN <<text>>
        ELSE LET i == CHOOSE j \in breaks : \A k \in breaks : j <= k
             IN  <<SubSeq(text, 1, i - 1)>>
                 \o split_lines(SubSeq(text, i + 1, Len(text)))

\* line.split(): the whitespace-delimited words of a line.
RECURSIVE split_words(_)
split_words(line) ==
    IF line = <<>> THEN <<>>
    ELSE IF Head(line) \in Whitespace THEN split_words(Tail(line))
    ELSE LET n == RunLength({line[i] : i \in 1..Len(line)} \ Whitespace, line)
         IN  <<SubSeq(line, 1, n)>>
             \o split_words(SubSeq(line, n + 1, Len(line)))

\* re.compile("^" + p).match(file_path) for a pattern source p: a character
\* stands for itself, and "+" after a character for one or more of it.
RECURSIVE PatternMatch(_, _)
PatternMatch(p, file_path) ==
    IF p = <<>> THEN TRUE
    ELSE IF Len(p) >= 2 /\ p[2] = "+"
    THEN \E k \in 1..RunLength({p[1]}, file_path) :
            PatternMatch(SubSeq(p, 3, Len(p)),
                         SubSeq(file_path, k + 1, Len(file_path)))
    ELSE /\ file_path # <<>>
         /\ Head(file_path) = p[1]
         /\ PatternMatch(Tail(p), Tail(file_path))

\* Rule.path_pattern: None, or a compiled path pattern.
NoPathPattern == [set |-> FALSE, pattern |-> <<>>]
PathPattern(p) == [set |-> TRUE, pattern |-> p]

\* types.Rule
Rule(name, pattern, path_pattern, re_match_type, re_match_scope) ==
    [name |-> name, pattern |-> pattern, path_pattern |-> path_pattern,
     re_match_type |-> re_match_type, re_match_scope |-> re_match_scope]

\* The regex rules configure_regexes resolves a rule name to.
RegexRule(name) ==
    CASE name = "rule1" ->
            Rule("rule1", {"!"}, PathPattern(<<"a">>), "Match", "Line")
      [] name = "rule2" ->
            Rule("rule2", {"!", "g"}, NoPathPattern, "Search", "Line")

\* types.Chunk
ChunkOf(contents, file_path, metadata) ==
    [contents |-> contents, file_path |-> file_path, metadata |-> metadata]

\* Issue.__init__: issue_detail is None until the detector sets it.
Issue(issue_type, matched_string, chunk) ==
    [issue_type |-> issue_type, matched_string |-> matched_string,
     chunk |-> chunk, issue_detail |-> "None"]

(***************************************************************************)
(* Signatures and their exclusion.                                         *)
(***************************************************************************)
\* util.generate_signature(snippet, filename): a digest of the two, here
\* the pair itself written as one string.
generate_signature(snippet, filename) ==
    <<"#">> \o snippet \o <<"$">> \o filename

\* Issue.signature
signature_uses_contents(issue) ==
    generate_signature(issue.matched_string,
                       issue.chunk.file_path \o issue.chunk.contents)
signature(issue) ==
    generate_signature(issue.matched_string, issue.chunk.file_path)

\* An entry of an exclude-signatures configuration: a flat string, or a
\* table with a "signature" key.
FlatEntry(s) == [shape |-> "str", signature |-> s]
TableEntry(s) == [shape |-> "table", signature |-> s]

\* self._excluded_signatures: None until the property resolves it.
Unresolved == [set |-> FALSE, signatures |-> {}]
Resolved(sigs) == [set |-> TRUE, signatures |-> sigs]

\* The excluded_signatures property: whether it raises ConfigException, the
\* value it returns, the warnings it emits and the field as it leaves it.
excluded_signatures_lenient ==
    IF excluded_signatures.set
    THEN [raised |-> FALSE, value |-> excluded_signatures.signatures,
          warned |-> 0, field |-> excluded_signatures]
    ELSE LET signatures == exclude_signatures \o config_data
             values == {signatures[i].signature : i \in 1..Len(signatures)}
             flat == {i \in 1..Len(signatures) : signatures[i].shape = "str"}
         IN  [raised |-> FALSE, value |-> values,
              warned |-> IF flat = {} THEN 0 ELSE 1,
              field |-> Resolved(values)]
excluded_signatures_get ==
    IF excluded_signatures.set
    THEN [raised |-> FALSE, value |-> excluded_signatures.signatures,
          warned |-> 0, field |-> excluded_signatures]
    ELSE LET signatures == exclude_signatures \o config_data
             values == {signatures[i].signature : i \in 1..Len(signatures)}
             flat == {i \in 1..Len(signatures) : signatures[i].shape = "str"}
             tables == {i \in 1..Len(signatures) :
                            signatures[i].shape = "table"}
         IN  IF flat = {}
             \* signature["signature"] works for every entry
             THEN [raised |-> FALSE, value |-> values, warned |-> 0,
                   field |-> Resolved(values)]
             \* TypeError on a flat string: the warning, then set(signatures)
             ELSE IF tables = {}
             THEN [raised |-> FALSE, value |-> values, warned |-> 1,
                   field |-> Resolved(values)]
             \* TypeError on a table: ConfigException
             ELSE [raised |-> TRUE, value |-> {}, warned |-> 1,
                   field |-> excluded_signatures]

\* signature_is_excluded(blob, file_path), where excluded_signatures does
\* not raise.
signature_is_excluded_literal_only(blob, file_path) ==
    blob \in excluded_signatures_get.value
signature_is_excluded(blob, file_path) ==
    \/ blob \in excluded_signatures_get.value
    \/ generate_signature(blob, file_path) \in excluded_signatures_get.value

(***************************************************************************)
(* The entropy detector.                                                   *)
(***************************************************************************)
\* -p * log2(p) for p = count / size, in thousandths of a bit, for the
\* proportions strings of at most four characters have.
PLogP(count, size) ==
    CASE count = size -> 0
      [] 2 * count = size -> 500
      [] 4 * count = size -> 500
      [] 3 * count = size -> 528
      [] 3 * count = 2 * size -> 390
      [] 4 * count = 3 * size -> 311

\* calculate_entropy(data), in thousandths of a bit.
RECURSIVE SumPLogP(_, _)
SumPLogP(data, chars) ==
    IF chars = {} THEN 0
    ELSE LET ch == CHOOSE c \in chars : TRUE
             count == Cardinality({i \in 1..Len(data) : data[i] = ch})
         IN  PLogP(count, Len(data)) + SumPLogP(data, chars \ {ch})
calculate_entropy(data) ==
    IF data = <<>> THEN 0
    ELSE SumPLogP(data, {data[i] : i \in 1..Len(data)})

\* global_options.entropy_sensitivity is None
NoSensitivity == -1

\* compute_scaled_entropy_limit(maximum_bitrate), in thousandths of a bit.
compute_scaled_entropy_limit(maximum_bitrate) ==
    LET sensitivity == IF entropy_sensitivity = NoSensitivity THEN 75
                       ELSE entropy_sensitivity
    IN  sensitivity * 10 * maximum_bitrate

\* An absolute score that is not configured (None).
NoScore == -1
NotCached == [set |-> FALSE, value |-> 0]
Cached(v) == [set |-> TRUE, value |-> v]

\* A cached_property limit is read: the body runs if nothing is cached. The
\* deprecated absolute `score` is used, with a warning, if it is truthy
\* (neither None nor 0); else the scaled limit.
entropy_limit_warns_each_time(cached, score, maximum_bitrate) ==
    LET v == IF score \notin {NoScore, 0} THEN score
             ELSE compute_scaled_entropy_limit(maximum_bitrate)
    IN  [value |-> v, field |-> Cached(v),
         warned |-> IF score \notin {NoScore, 0} THEN 1 ELSE 0]
entropy_limit_get(cached, score, maximum_bitrate) ==
    IF cached.set
    THEN [value |-> cached.value, field |-> cached, warned |-> 0]
    ELSE IF score \notin {NoScore, 0}
    THEN [value |-> score, field |-> Cached(score), warned |-> 1]
    ELSE LET v == compute_scaled_entropy_limit(maximum_bitrate)
         IN  [value |-> v, field |-> Cached(v), warned |-> 0]

\* hex_entropy_limit / b64_entropy_limit, in thousandths of a bit.
hex_entropy_limit_get ==
    entropy_limit_get(entropy_limit_cache.hex, hex_entropy_score, 4)
b64_entropy_limit_get ==
    entropy_limit_get(entropy_limit_cache.b64, b64_entropy_score, 6)
hex_entropy_limit == hex_entropy_limit_get.value
b64_entropy_limit == b64_entropy_limit_get.value

rule_matches_path_by_match(rule, string, line, path) ==
    IF rule.re_match_scope \notin {"Word", "Line"}
    THEN [raised |-> TRUE, value |-> FALSE]
    ELSE LET scope == IF rule.re_match_scope = "Word" THEN string ELSE line
             content == IF rule.re_match_type = "Match"
                        THEN pattern_match(rule.pattern, scope)
                        ELSE pattern_search(rule.pattern, scope)
         IN  [raised |-> FALSE,
              value |-> /\ content
                        /\ rule.path_pattern.set =>
                              PatternMatch(rule.path_pattern.pattern, path)]
\* rule_matches(rule, string, line, path): whether it raises
\* TartufoException (invalid scope), and the value it returns.
rule_matches(rule, string, line, path) ==
    IF rule.re_match_scope \notin {"Word", "Line"}
    THEN [raised |-> TRUE, value |-> FALSE]
    ELSE LET scope == IF rule.re_match_scope = "Word" THEN string ELSE line
             match ==
                CASE rule.re_match_type = "Match" ->
                        /\ pattern_match(rule.pattern, scope)
                        /\ rule.path_pattern.set =>
                              PatternMatch(rule.path_pattern.pattern, path)
                  [] rule.re_match_type = "Search" ->
                        /\ pattern_search(rule.pattern, scope)
                        /\ rule.path_pattern.set =>
                              \E k \in 0..Len(path) :
                                  PatternMatch(rule.path_pattern.pattern,
                                               SubSeq(path, k + 1, Len(path)))
                  [] OTHER -> FALSE
         IN  [raised |-> FALSE, value |-> match]

\* entropy_string_is_excluded(string, line, path): any() stops at the
\* first rule that matches, and a rule that raises before one ends it.
RECURSIVE AnyRuleMatches(_, _, _, _)
AnyRuleMatches(rules, string, line, path) ==
    IF rules = <<>> THEN [raised |-> FALSE, value |-> FALSE]
    ELSE LET r == rule_matches(Head(rules), string, line, path)
         IN  IF r.raised \/ r.value THEN r
             ELSE AnyRuleMatches(Tail(rules), string, line, path)
entropy_string_is_excluded(string, line, path) ==
    AnyRuleMatches(exclude_entropy_patterns, string, line, path)

\* evaluate_entropy_string(chunk, line, string, min_entropy_score): the
\* issues it yields, and whether it raises.
NoIssues == [raised |-> FALSE, issues |-> <<>>]
Raised == [raised |-> TRUE, issues |-> <<>>]
evaluate_entropy_string_at_limit(chunk, line, string, min_entropy_score) ==
    IF excluded_signatures_get.raised THEN Raised
    ELSE IF signature_is_excluded(string, chunk.file_path) THEN NoIssues
    ELSE IF calculate_entropy(string) >= min_entropy_score
    THEN LET r == entropy_string_is_excluded(string, line, chunk.file_path)
         IN  IF r.raised THEN Raised
             ELSE IF r.value THEN NoIssues
             ELSE [raised |-> FALSE,
                   issues |-> <<Issue("Entropy", string, chunk)>>]
    ELSE NoIssues
evaluate_entropy_string(chunk, line, string, min_entropy_score) ==
    IF excluded_signatures_get.raised THEN Raised
    ELSE IF signature_is_excluded(string, chunk.file_path) THEN NoIssues
    ELSE IF calculate_entropy(string) > min_entropy_score
    THEN LET r == entropy_string_is_excluded(string, line, chunk.file_path)
         IN  IF r.raised THEN Raised
             ELSE IF r.value THEN NoIssues
             ELSE [raised |-> FALSE,
                   issues |-> <<Issue("Entropy", string, chunk)>>]
    ELSE NoIssues

\* util.find_strings_by_regex(text, regex): the maximal substrings of text
\* that the pattern matches.
find_strings_by_regex(text, pattern) == findall(pattern, text)

\* A generator followed by another: nothing runs after a raise.
Then(r1, r2) ==
    IF r1.raised THEN r1
    ELSE [raised |-> r2.raised, issues |-> r1.issues \o r2.issues]

\* The strings scan_entropy evaluates, in order, each with its line and
\* the limit of its family: per line, per word, base64 strings then
\* hexadecimal strings.
EntropyCandidates(chunk) ==
    LET OfWord(line, word) ==
            LET b64 == find_strings_by_regex(word, BASE64_REGEX)
                hex == find_strings_by_regex(word, HEX_REGEX)
            IN  [i \in 1..Len(b64) |->
                    [line |-> line, string |-> b64[i], family |-> "b64",
                     limit |-> b64_entropy_limit]]
                \o [i \in 1..Len(hex) |->
                    [line |-> line, string |-> hex[i], family |-> "hex",
                     limit |-> hex_entropy_limit]]
        OfLine(line) ==
            LET words == split_words(line)
            IN  Flatten([i \in 1..Len(words) |-> OfWord(line, words[i])])
        lines == split_lines(chunk.contents)
    IN  Flatten([i \in 1..Len(lines) |-> OfLine(lines[i])])

RECURSIVE EvaluateAll(_, _)
EvaluateAll(chunk, candidates) ==
    IF candidates = <<>> THEN NoIssues
    ELSE LET c == Head(candidates)
         IN  Then(evaluate_entropy_string(chunk, c.line, c.string, c.limit),
                  EvaluateAll(chunk, Tail(candidates)))

\* scan_entropy(chunk)
scan_entropy(chunk) == EvaluateAll(chunk, EntropyCandidates(chunk))

\* The body of `for rule in self.rules_regexes` of scan_regex.
ScanRegexRuleIgnoresPath(rule, chunk) ==
    LET found_strings == findall(rule.pattern, chunk.contents)
        Kept(match) == ~signature_is_excluded(match, chunk.file_path)
        kept == SelectSeq(found_strings, Kept)
    IN  IF found_strings = <<>> THEN NoIssues
        ELSE IF excluded_signatures_get.raised THEN Raised
        ELSE [raised |-> FALSE,
              issues |-> [i \in 1..Len(kept) |->
                            [Issue("RegEx", kept[i], chunk)
                                EXCEPT !.issue_detail = rule.name]]]
ScanRegexRule(rule, chunk) ==
    IF rule.path_pattern.set
       /\ ~PatternMatch(rule.path_pattern.pattern, chunk.file_path)
    THEN NoIssues
    ELSE LET found_strings == findall(rule.pattern, chunk.contents)
             Kept(match) == ~signature_is_excluded(match, chunk.file_path)
             kept == SelectSeq(found_strings, Kept)
         IN  IF found_strings = <<>> THEN NoIssues
             ELSE IF excluded_signatures_get.raised THEN Raised
             ELSE [raised |-> FALSE,
                   issues |-> [i \in 1..Len(kept) |->
                                 [Issue("RegEx", kept[i], chunk)
                                     EXCEPT !.issue_detail = rule.name]]]

\* scan_regex(chunk): the rules in the iteration order of the rule set.
RECURSIVE ScanRegexRules(_, _)
ScanRegexRules(names, chunk) ==
    IF names = <<>> THEN NoIssues
    ELSE Then(ScanRegexRule(RegexRule(Head(names)), chunk),
              ScanRegexRules(Tail(names), chunk))
scan_regex(chunk) == ScanRegexRules(SetToSeq(rules_regexes), chunk)

ScanChunkEntropyFirst(chunk) ==
    Then(IF entropy THEN scan_entropy(chunk) ELSE NoIssues,
         IF regex /\ rules_regexes # {} THEN scan_regex(chunk) ELSE NoIssues)
\* The body of the for loop of scan for one chunk: regex first, then entropy.
ScanChunk(chunk) ==
    Then(IF regex /\ rules_regexes # {} THEN scan_regex(chunk) ELSE NoIssues,
         IF entropy THEN scan_entropy(chunk) ELSE NoIssues)
ChunkIssues(chunk) == ScanChunk(chunk).issues

\* Chunk i of the producer: a patch of file "a" with a match of rule1 and a
\* base64 string, a patch of file "b" with a hexadecimal string, a patch of
\* file "b" with nothing to find, and so on.
Chunk(i) ==
    CASE i % 3 = 1 ->
            ChunkOf(<<"!", " ", "g", "h">>, <<"a">>, [commit |-> i])
      [] i % 3 = 2 ->
            ChunkOf(<<"a", "b">>, <<"b">>, [commit |-> i])
      [] OTHER ->
            ChunkOf(<<"!">>, <<"b">>, [commit |-> i])

\* No detector has been called directly.
NoDetResult == [op |-> "none"]

\* scan_entropy reads self.b64_entropy_limit for every base64 string of the
\* chunk and self.hex_entropy_limit for every hexadecimal one: the cache
\* and the warnings after the chunk.
ChunkReadsLimit(chunk, family) ==
    /\ entropy
    /\ \E i \in 1..Len(EntropyCandidates(chunk)) :
          EntropyCandidates(chunk)[i].family = family
ChunkLimits(chunk) ==
    LET hex == ChunkReadsLimit(chunk, "hex")
        b64 == ChunkReadsLimit(chunk, "b64")
    IN  [field |-> [hex |-> IF hex THEN hex_entropy_limit_get.field
                            ELSE entropy_limit_cache.hex,
                    b64 |-> IF b64 THEN b64_entropy_limit_get.field
                            ELSE entropy_limit_cache.b64],
         warned |-> (IF hex THEN hex_entropy_limit_get.warned ELSE 0)
                    + (IF b64 THEN b64_entropy_limit_get.warned ELSE 0)]

\* The state of the fields the detectors read lazily, once a chunk with
\* something to evaluate has been scanned.
ChunkConsults(chunk) ==
    \/ /\ regex /\ rules_regexes # {}
       /\ \E name \in rules_regexes :
            LET rule == RegexRule(name)
            IN  /\ rule.path_pattern.set =>
                      PatternMatch(rule.path_pattern.pattern, chunk.file_path)
                /\ findall(rule.pattern, chunk.contents) # <<>>
    \/ entropy /\ EntropyCandidates(chunk) # <<>>

\* The issues of the full chunk sequence, in order.
AllIssues == Flatten([i \in 1..NumChunks |-> ChunkIssues(Chunk(i))])

\* The two checks at the start of scan.
PreconditionsOKNoRuleCheck == entropy \/ regex
PreconditionsOK ==
    /\ entropy \/ regex
    /\ ~(regex /\ rules_regexes = {})

NoResult == [set |-> FALSE, list |-> <<>>]

(***************************************************************************)
(* Initial state: a constructed engine, no call made yet.                  *)
(***************************************************************************)
InstanceStart ==
    /\ thread_pc = [e \in Engines |-> "idle"]
    /\ thread_scans = [e \in Engines |-> 0]
    /\ instance_completed = [e \in Engines |-> FALSE]
    /\ instance_issues = [e \in Engines |-> <<>>]
    /\ instance_chunks = [e \in Engines |-> 0]

EngineStart ==
    /\ InstanceStart
    /\ completed = FALSE
    /\ issues = <<>>
    /\ scan_lock = NoCall
    /\ pc = [g \in Calls |-> "idle"]
    /\ kind = [g \in Calls |-> "none"]
    /\ mode = [g \in Calls |-> "none"]
    /\ pulls = [g \in Calls |-> 0]
    /\ pending = [g \in Calls |-> <<>>]
    /\ emitted = [g \in Calls |-> <<>>]
    /\ result = [g \in Calls |-> NoResult]
    /\ outcome = [g \in Calls |-> "none"]
    /\ blockedBehind = [g \in Calls |-> NoCall]
    /\ priorReturned = [g \in Calls |-> FALSE]

EngineInit ==
    /\ entropy \in BOOLEAN
    /\ regex \in BOOLEAN
    /\ rules_regexes \in SUBSET RuleNames
    /\ EngineStart

options == <<entropy, regex, rules_regexes>>

\* Calls are made in the order of their numbers.
MayCall(g) == pc[g] = "idle" /\ (IF g = 1 THEN TRUE ELSE pc[g - 1] # "idle")

FullyConsumed(h) == kind[h] = "scan" /\ outcome[h] = "returned"

\* The lock is held by a call that is in the for loop of a first scan.
ScanInProgress ==
    IF scan_lock = NoCall THEN FALSE
    ELSE mode[scan_lock] = "first" /\ ~completed

\* A caller reaches `with self._scan_lock` (first next() of the generator).
Arrive(g, k) ==
    /\ pc' = [pc EXCEPT ![g] = "waiting"]
    /\ kind' = [kind EXCEPT ![g] = k]
    /\ blockedBehind' = [blockedBehind EXCEPT
                            ![g] = IF ScanInProgress THEN scan_lock ELSE NoCall]
    /\ priorReturned' = [priorReturned EXCEPT
                            ![g] = \E h \in Calls : FullyConsumed(h)]

\* scan() is called and its generator started.
ScanCall(g) ==
    /\ MayCall(g)
    /\ Arrive(g, "scan")
    /\ UNCHANGED <<instanceVars, detectVars, filterVars, gitVars, options, completed, issues, scan_lock, mode, pulls,
                   pending, emitted, result, outcome>>

\* The issues property is read: `if not self.completed: list(self.scan())`.
IssuesCall(g) ==
    /\ MayCall(g)
    /\ IF completed
       THEN /\ pc' = [pc EXCEPT ![g] = "issues_return"]
            /\ kind' = [kind EXCEPT ![g] = "issues"]
            /\ UNCHANGED <<instanceVars, blockedBehind, priorReturned>>
       ELSE Arrive(g, "issues")
    /\ UNCHANGED <<instanceVars, detectVars, filterVars, gitVars, options, completed, issues, scan_lock, mode, pulls,
                   pending, emitted, result, outcome>>

\* `with self._scan_lock:` is entered.
AcquireNoGuard(g) ==
    /\ pc[g] = "waiting"
    /\ scan_lock' = g
    /\ pc' = [pc EXCEPT ![g] = "locked"]
    /\ UNCHANGED <<instanceVars, detectVars, filterVars, gitVars, options, completed, issues, kind, mode, pulls, pending,
                   emitted, result, outcome, blockedBehind, priorReturned>>
Acquire(g) ==
    /\ pc[g] = "waiting"
    /\ scan_lock = NoCall
    /\ scan_lock' = g
    /\ pc' = [pc EXCEPT ![g] = "locked"]
    /\ UNCHANGED <<instanceVars, detectVars, filterVars, gitVars, options, completed, issues, kind, mode, pulls, pending,
                   emitted, result, outcome, blockedBehind, priorReturned>>

\* The generator ends (return, exception or close): the with block is left.
Leave(g, how) ==
    /\ scan_lock' = NoCall
    /\ IF how = "returned" /\ kind[g] = "issues"
       THEN /\ pc' = [pc EXCEPT ![g] = "issues_return"]
            /\ UNCHANGED outcome
       ELSE /\ pc' = [pc EXCEPT ![g] = "done"]
            /\ outcome' = [outcome EXCEPT ![g] = how]

\* `if self._completed:` taken: the cached issues will be replayed.
ReplayCachedRescans(g) ==
    /\ pc[g] = "locked"
    /\ completed
    /\ issues' = <<>>
    /\ mode' = [mode EXCEPT ![g] = "first"]
    /\ pc' = [pc EXCEPT ![g] = "scanning"]
    /\ UNCHANGED <<instanceVars, detectVars, filterVars, gitVars, options, completed, scan_lock, kind, pulls, pending,
                   emitted, result, outcome, blockedBehind, priorReturned>>
ReplayCached(g) ==
    /\ pc[g] = "locked"
    /\ completed
    /\ mode' = [mode EXCEPT ![g] = "replay"]
    /\ pc' = [pc EXCEPT ![g] = "replay"]
    /\ UNCHANGED <<instanceVars, detectVars, filterVars, gitVars, options, completed, issues, scan_lock, kind, pulls,
                   pending, emitted, result, outcome, blockedBehind,
                   priorReturned>>

\* A precondition fails: ConfigException, raised inside the with block.
PreconditionError(g) ==
    /\ pc[g] = "locked"
    /\ ~completed
    /\ ~PreconditionsOK
    /\ Leave(g, "config_error")
    /\ UNCHANGED <<instanceVars, detectVars, filterVars, gitVars, options, completed, issues, kind, mode, pulls, pending,
                   emitted, result, blockedBehind, priorReturned>>

\* "Starting scan...": `self._issues = []`, then the for loop begins.
StartScanKeepIssues(g) ==
    /\ pc[g] = "locked"
    /\ ~completed
    /\ PreconditionsOK
    /\ mode' = [mode EXCEPT ![g] = "first"]
    /\ pc' = [pc EXCEPT ![g] = "scanning"]
    /\ UNCHANGED <<instanceVars, detectVars, filterVars, gitVars, options, completed, issues, scan_lock, kind, pulls,
                   pending, emitted, result, outcome, blockedBehind,
                   priorReturned>>
StartScanNoCompletedCheck(g) ==
    /\ pc[g] = "locked"
    /\ PreconditionsOK
    /\ issues' = <<>>
    /\ mode' = [mode EXCEPT ![g] = "first"]
    /\ pc' = [pc EXCEPT ![g] = "scanning"]
    /\ UNCHANGED <<instanceVars, detectVars, filterVars, gitVars, options, completed, scan_lock, kind, pulls, pending,
                   emitted, result, outcome, blockedBehind, priorReturned>>
StartScanResetsCompleted(g) ==
    /\ pc[g] = "locked"
    /\ PreconditionsOK
    /\ issues' = <<>>
    /\ completed' = FALSE
    /\ mode' = [mode EXCEPT ![g] = "first"]
    /\ pc' = [pc EXCEPT ![g] = "scanning"]
    /\ UNCHANGED <<instanceVars, detectVars, filterVars, gitVars, options, scan_lock, kind, pulls, pending, emitted,
                   result, outcome, blockedBehind, priorReturned>>
StartScan(g) ==
    /\ pc[g] = "locked"
    /\ ~completed
    /\ PreconditionsOK
    /\ issues' = <<>>
    /\ mode' = [mode EXCEPT ![g] = "first"]
    /\ pc' = [pc EXCEPT ![g] = "scanning"]
    /\ UNCHANGED <<instanceVars, detectVars, filterVars, gitVars, options, completed, scan_lock, kind, pulls, pending,
                   emitted, result, outcome, blockedBehind, priorReturned>>

\* next() on self.chunks yields the next chunk; the detectors run on it.
NextChunk(g) ==
    /\ pc[g] = "scanning"
    /\ pulls[g] < NumChunks
    /\ LET chunk == Chunk(pulls[g] + 1)
           consults == ChunkConsults(chunk)
       IN  /\ ~(consults /\ excluded_signatures_get.raised)
           /\ pulls' = [pulls EXCEPT ![g] = @ + 1]
           /\ pending' = [pending EXCEPT ![g] = ChunkIssues(chunk)]
           /\ pc' = [pc EXCEPT ![g] =
                       IF ChunkIssues(chunk) = <<>>
                       THEN "scanning" ELSE "processing"]
           /\ excluded_signatures' =
                   IF consults THEN excluded_signatures_get.field
                   ELSE excluded_signatures
           /\ entropy_limit_cache' = ChunkLimits(chunk).field
           /\ warnings' =
                   warnings + ChunkLimits(chunk).warned
                   + (IF consults THEN excluded_signatures_get.warned ELSE 0)
    /\ UNCHANGED <<instanceVars, detectOptions, det_result, filterVars, gitVars, options,
                   completed, issues, scan_lock, kind, mode, emitted, result,
                   outcome, blockedBehind, priorReturned>>

\* next() on self.chunks raises (branch not found, GitError, I/O).
ChunksRaise(g) ==
    /\ pc[g] = "scanning"
    /\ pulls[g] < NumChunks
    /\ pulls' = [pulls EXCEPT ![g] = @ + 1]
    /\ Leave(g, "repo_error")
    /\ UNCHANGED <<instanceVars, detectVars, filterVars, gitVars, options, completed, issues, kind, mode, pending, emitted,
                   result, blockedBehind, priorReturned>>

\* A detector raises while evaluating the next candidate (excluded
\* signatures in both formats, a rule with an invalid scope).
DetectorRaiseMarksCompleted(g) ==
    /\ pc[g] = "processing"
    /\ completed' = TRUE
    /\ Leave(g, "config_error")
    /\ UNCHANGED <<instanceVars, detectVars, filterVars, gitVars, options, issues, kind, mode, pulls, pending, emitted,
                   result, blockedBehind, priorReturned>>
DetectorRaise(g) ==
    /\ pc[g] = "processing"
    /\ Leave(g, "config_error")
    /\ UNCHANGED <<instanceVars, detectVars, filterVars, gitVars, options, completed, issues, kind, mode, pulls, pending,
                   emitted, result, blockedBehind, priorReturned>>

\* `self._issues.append(issue)`.
AppendIssueOnce(g) ==
    /\ pc[g] = "processing"
    /\ issues' = IF \E k \in 1..Len(issues) : issues[k] = Head(pending[g])
                 THEN issues
                 ELSE Append(issues, Head(pending[g]))
    /\ pc' = [pc EXCEPT ![g] = "appended"]
    /\ UNCHANGED <<instanceVars, detectVars, filterVars, gitVars, options, completed, scan_lock, kind, mode, pulls, pending,
                   emitted, result, outcome, blockedBehind, priorReturned>>
AppendIssueAtFront(g) ==
    /\ pc[g] = "processing"
    /\ issues' = <<Head(pending[g])>> \o issues
    /\ pc' = [pc EXCEPT ![g] = "appended"]
    /\ UNCHANGED <<instanceVars, detectVars, filterVars, gitVars, options, completed,
                   scan_lock, kind, mode, pulls, pending, emitted, result,
                   outcome, blockedBehind, priorReturned>>
AppendIssue(g) ==
    /\ pc[g] = "processing"
    /\ issues' = Append(issues, Head(pending[g]))
    /\ pc' = [pc EXCEPT ![g] = "appended"]
    /\ UNCHANGED <<instanceVars, detectVars, filterVars, gitVars, options, completed, scan_lock, kind, mode, pulls, pending,
                   emitted, result, outcome, blockedBehind, priorReturned>>

\* `yield issue`: the generator is suspended, the lock stays held.
YieldIssue(g) ==
    /\ pc[g] = "appended"
    /\ emitted' = [emitted EXCEPT ![g] = Append(@, Head(pending[g]))]
    /\ pending' = [pending EXCEPT ![g] = Tail(@)]
    /\ pc' = [pc EXCEPT ![g] = "suspended"]
    /\ UNCHANGED <<instanceVars, detectVars, filterVars, gitVars, options, completed, issues, scan_lock, kind, mode, pulls,
                   result, outcome, blockedBehind, priorReturned>>

\* `yield from self._issues`: the next cached issue is yielded.
ReplayYield(g) ==
    /\ pc[g] = "replay"
    /\ Len(emitted[g]) < Len(issues)
    /\ emitted' = [emitted EXCEPT ![g] = Append(@, issues[Len(@) + 1])]
    /\ pc' = [pc EXCEPT ![g] = "suspended"]
    /\ UNCHANGED <<instanceVars, detectVars, filterVars, gitVars, options, completed, issues, scan_lock, kind, mode, pulls,
                   pending, result, outcome, blockedBehind, priorReturned>>

\* `return` after the replay.
ReplayReturn(g) ==
    /\ pc[g] = "replay"
    /\ Len(emitted[g]) >= Len(issues)
    /\ Leave(g, "returned")
    /\ UNCHANGED <<instanceVars, detectVars, filterVars, gitVars, options, completed, issues, kind, mode, pulls, pending,
                   emitted, result, blockedBehind, priorReturned>>

\* The caller asks for the next issue.
Resume(g) ==
    /\ pc[g] = "suspended"
    /\ pc' = [pc EXCEPT ![g] =
                IF mode[g] = "replay" THEN "replay"
                ELSE IF pending[g] = <<>> THEN "scanning" ELSE "processing"]
    /\ UNCHANGED <<instanceVars, detectVars, filterVars, gitVars, options, completed, issues, scan_lock, kind, mode, pulls,
                   pending, emitted, result, outcome, blockedBehind,
                   priorReturned>>

CloseKeepsLock(g) ==
    /\ pc[g] = "suspended"
    /\ kind[g] = "scan"
    /\ pc' = [pc EXCEPT ![g] = "done"]
    /\ outcome' = [outcome EXCEPT ![g] = "closed"]
    /\ UNCHANGED <<instanceVars, detectVars, filterVars, gitVars, options, completed,
                   issues, scan_lock, kind, mode, pulls, pending, emitted,
                   result, blockedBehind, priorReturned>>
\* The caller of scan() drops or closes the suspended generator:
\* GeneratorExit at the yield, the with block is left.
Close(g) ==
    /\ pc[g] = "suspended"
    /\ kind[g] = "scan"
    /\ Leave(g, "closed")
    /\ UNCHANGED <<instanceVars, detectVars, filterVars, gitVars, options, completed, issues, kind, mode, pulls, pending,
                   emitted, result, blockedBehind, priorReturned>>

\* The chunk sequence is exhausted: `self._completed = True`.
SetCompletedForgets(g) ==
    /\ pc[g] = "scanning"
    /\ pulls[g] = NumChunks
    /\ pulls' = [pulls EXCEPT ![g] = @ + 1]
    /\ pc' = [pc EXCEPT ![g] = "epilogue"]
    /\ UNCHANGED <<instanceVars, detectVars, filterVars, gitVars, options, completed, issues, scan_lock, kind, mode,
                   pending, emitted, result, outcome, blockedBehind,
                   priorReturned>>
SetCompleted(g) ==
    /\ pc[g] = "scanning"
    /\ pulls[g] = NumChunks
    /\ completed' = TRUE
    /\ pulls' = [pulls EXCEPT ![g] = @ + 1]
    /\ pc' = [pc EXCEPT ![g] = "epilogue"]
    /\ UNCHANGED <<instanceVars, detectVars, filterVars, gitVars, options, issues, scan_lock, kind, mode, pending, emitted,
                   result, outcome, blockedBehind, priorReturned>>

\* The generator ends after "Found %d issues.": the lock is released.
Release(g) ==
    /\ pc[g] = "epilogue"
    /\ Leave(g, "returned")
    /\ UNCHANGED <<instanceVars, detectVars, filterVars, gitVars, options, completed, issues, kind, mode, pulls, pending,
                   emitted, result, blockedBehind, priorReturned>>

\* `return self._issues` of the issues property.
IssuesReturn(g) ==
    /\ pc[g] = "issues_return"
    /\ result' = [result EXCEPT ![g] = [set |-> TRUE, list |-> issues]]
    /\ pc' = [pc EXCEPT ![g] = "done"]
    /\ outcome' = [outcome EXCEPT ![g] = "returned"]
    /\ UNCHANGED <<instanceVars, detectVars, filterVars, gitVars, options, completed, issues, scan_lock, kind, mode, pulls,
                   pending, emitted, blockedBehind, priorReturned>>

EngineNext ==
    \E g \in Calls :
        \/ ScanCall(g)
        \/ IssuesCall(g)
        \/ Acquire(g)
        \/ ReplayCached(g)
        \/ PreconditionError(g)
        \/ StartScan(g)
        \/ NextChunk(g)
        \/ ChunksRaise(g)
        \/ DetectorRaise(g)
        \/ AppendIssue(g)
        \/ YieldIssue(g)
        \/ ReplayYield(g)
        \/ ReplayReturn(g)
        \/ Resume(g)
        \/ Close(g)
        \/ SetCompleted(g)
        \/ Release(g)
        \/ IssuesReturn(g)


(***************************************************************************)
(* Path filtering: ScannerBase.should_scan and the fields it reads.        *)
(* A path is a sequence of characters; a compiled path pattern is given by *)
(* its source, which Pattern.match reads as a regular expression anchored  *)
(* at the start of the path (PatternMatch).                                *)
(***************************************************************************)
\* Longest path should_scan is called with.
MaxPathLen == 2
\* Number of distinct paths should_scan is called with (size of its cache).
MaxCached == 2

Alphabet == {"a", "b"}
Paths == UNION {[1..n -> Alphabet] : n \in 1..MaxPathLen}
PatternPool == {<<"a">>, <<"b">>, <<"a", "b">>}

\* A lazily initialized field: None until its property is first read.
NotInitialized == [set |-> FALSE, patterns |-> {}]
Initialized(ps) == [set |-> TRUE, patterns |-> ps]

\* The assignment a property makes when it finds its field None.
PropertyWrites(field) == IF field.set THEN 0 ELSE 1
NoWrites == [included |-> 0, excluded |-> 0]
\* The assignments counted after a call that left the fields as r has them.
WritesAfter(r) ==
    [included |-> field_writes.included
                  + (IF r.included.set THEN PropertyWrites(included_paths)
                     ELSE 0),
     excluded |-> field_writes.excluded
                  + (IF r.excluded.set THEN PropertyWrites(excluded_paths)
                     ELSE 0)]

\* The included_paths / excluded_paths properties: the value they return.
included_paths_get ==
    IF included_paths.set THEN included_paths.patterns
    ELSE include_path_patterns
excluded_paths_get ==
    IF excluded_paths.set THEN excluded_paths.patterns
    ELSE exclude_path_patterns

\* The body of should_scan: the value returned and the fields as the
\* properties it read leave them.
should_scan_included_wins(file_path) ==
    LET inc == included_paths_get
        exc == excluded_paths_get
    IN  IF inc # {} /\ \E p \in inc : PatternMatch(p, file_path)
        THEN [value |-> TRUE, included |-> Initialized(inc),
              excluded |-> excluded_paths]
        ELSE [value |-> inc = {} /\ ~(\E p \in exc : PatternMatch(p, file_path)),
              included |-> Initialized(inc), excluded |-> Initialized(exc)]
should_scan(file_path) ==
    LET inc == included_paths_get
    IN  IF inc # {} /\ ~(\E p \in inc : PatternMatch(p, file_path))
        THEN [value |-> FALSE, included |-> Initialized(inc),
              excluded |-> excluded_paths]
        ELSE LET exc == excluded_paths_get
             IN  IF exc # {} /\ \E p \in exc : PatternMatch(p, file_path)
                 THEN [value |-> FALSE, included |-> Initialized(inc),
                       excluded |-> Initialized(exc)]
                 ELSE [value |-> TRUE, included |-> Initialized(inc),
                       excluded |-> Initialized(exc)]

NoShouldScanResult == [called |-> FALSE, path |-> <<>>, value |-> FALSE]
EmptyCache == [p \in {} |-> FALSE]

FilterInitWith(inc, exc) ==
    /\ include_path_patterns = inc
    /\ exclude_path_patterns = exc
    /\ included_paths = NotInitialized
    /\ excluded_paths = NotInitialized
    /\ field_writes = NoWrites
    /\ should_scan_cache = EmptyCache
    /\ should_scan_result = NoShouldScanResult

FilterInit ==
    \E inc \in SUBSET PatternPool : \E exc \in SUBSET PatternPool :
        FilterInitWith(inc, exc)

\* should_scan(file_path), answered by lru_cache.
ShouldScanCached(file_path) ==
    /\ file_path \in DOMAIN should_scan_cache
    /\ should_scan_result' = [called |-> TRUE, path |-> file_path,
                              value |-> should_scan_cache[file_path]]
    /\ UNCHANGED <<instanceVars, engineVars, detectVars, gitVars, include_path_patterns,
                   exclude_path_patterns, included_paths, excluded_paths,
                   field_writes, should_scan_cache>>

\* should_scan(file_path), computed and stored by lru_cache.
ShouldScanCompute(file_path) ==
    /\ file_path \notin DOMAIN should_scan_cache
    /\ Cardinality(DOMAIN should_scan_cache) < MaxCached
    /\ LET r == should_scan(file_path)
       IN  /\ included_paths' = r.included
           /\ excluded_paths' = r.excluded
           /\ field_writes' = WritesAfter(r)
           /\ should_scan_cache' = should_scan_cache @@ (file_path :> r.value)
           /\ should_scan_result' = [called |-> TRUE, path |-> file_path,
                                     value |-> r.value]
    /\ UNCHANGED <<instanceVars, engineVars, detectVars, gitVars, include_path_patterns,
                   exclude_path_patterns>>

FilterNext ==
    \E file_path \in Paths :
        \/ ShouldScanCached(file_path)
        \/ ShouldScanCompute(file_path)


(***************************************************************************)
(* The git history chunk producer: GitRepoScanner.chunks and               *)
(* GitScanner._iter_diff_index.                                            *)
(***************************************************************************)
\* Number of commits of the repository; a commit's parents are older
\* (lower numbered) commits.
NumCommits == 3

Commits == 1..NumCommits
NoCommit == 0
\* The repository's branch names, local ones first (list(self._repo.branches)).
BranchNames == <<"main", "origin/dev">>
LocalBranches == {"main"}
NoBranch == -1
Unresolvable == 0

\* The parent lists a commit may have: none, one parent, or two (a merge).
ParentChoices(c) ==
    IF c = 1 THEN {<<>>, <<0>>}
    ELSE {<<>>} \cup {<<i>> : i \in 1..(c - 1)}
         \cup {<<i, j>> : i \in {c - 1}, j \in 1..(c - 2)}
         \cup {<<j, i>> : i \in {c - 1}, j \in 1..(c - 2)}

LocalParents(c) == {parents[c][k] : k \in 1..Len(parents[c])} \ {0}

\* The commits self._repo.walk(target) returns: target and its ancestors.
RECURSIVE Reach(_)
Reach(c) == {c} \cup UNION {Reach(q) : q \in LocalParents(c)}

\* self._repo.head.target
HeadTarget == NumCommits

\* The commits of the walk of a branch of the `branches` list.
WalkSet(branch_name) ==
    IF branch_name = "HEAD" THEN {HeadTarget}
    ELSE Reach(branch_tip[branch_name])

\* GIT_SORT_TOPOLOGICAL: a commit is returned after all its children.
WalkNext(branch_name) ==
    {c \in WalkSet(branch_name) \ walked :
        \A d \in WalkSet(branch_name) \ walked : c \notin LocalParents(d)}

\* Patch texts, as lines.
NormalText == <<"diff --git", "--- a", "+++ b", "@@", "+line">>
RenameText == <<"diff --git", "similarity index 100%", "rename from", "rename to">>
GitlinkText == <<"diff --git", "--- /dev/null", "+++ b", "@@",
                 "+Subproject commit">>
PlusLines == {"+++ b"}

Delta(new_path, old_path, is_binary, status, text) ==
    [new_path |-> new_path, old_path |-> old_path, is_binary |-> is_binary,
     status |-> status, text |-> text]

\* self._repo.diff(prev_commit, curr_commit): the patches of commit c
\* against its first parent.
CommitDeltas(c) ==
    CASE c % 3 = 1 ->
            <<Delta(<<"a">>, <<"a">>, FALSE, "modified", NormalText)>>
      [] c % 3 = 2 ->
            <<Delta(<<"b">>, <<"b">>, TRUE, "modified", <<>>),
              Delta(<<"a", "b">>, <<>>, FALSE, "added", NormalText)>>
      [] OTHER ->
            <<Delta(<<>>, <<"a">>, FALSE, "deleted", NormalText),
              Delta(<<"b">>, <<"a", "a">>, FALSE, "renamed", RenameText)>>

\* tree.diff_to_tree(swap=True): every entry of the tree of commit c,
\* added: its files, and the gitlink of each submodule.
TreeDeltas(c) ==
    <<Delta(<<"a">>, <<>>, FALSE, "added", NormalText)>>
    \o (IF c % 2 = 0
        THEN <<Delta(<<"b">>, <<>>, FALSE, "added", NormalText)>>
        ELSE <<>>)
    \o [i \in 1..Cardinality(submodules) |->
          Delta(SetToSeq(submodules)[i], <<>>, FALSE, "added", GitlinkText)]

header_length_with_next_line(text) ==
    LET plus == {i \in 2..Len(text) : text[i] \in PlusLines}
    IN  IF plus = {} THEN Len(text)
        ELSE (CHOOSE i \in plus : \A j \in plus : i <= j) + 1
\* header_length, in lines: the header ends with the first line starting
\* with "+++" that follows a newline; without one the whole text is header.
header_length(text) ==
    LET plus == {i \in 2..Len(text) : text[i] \in PlusLines}
    IN  IF plus = {} THEN Len(text)
        ELSE CHOOSE i \in plus : \A j \in plus : i <= j

\* str(prev_commit) + str(curr_commit), hashed: the ids are of fixed width.
DiffHash(prev, curr) == <<prev>> \o <<curr>>

AlreadySearchedNever(diff_hash) == FALSE
AlreadySearched(diff_hash) == diff_hash \in already_searched

\* The producer before its first next().
GitStart ==
    /\ gpc = "select"
    /\ branches = <<>>
    /\ bidx = 0
    /\ walked = {}
    /\ curr_commit = NoCommit
    /\ already_searched = {}
    /\ delta_queue = <<>>
    /\ cur_diff = <<NoCommit, NoCommit>>
    /\ yielded = <<>>
    /\ diff_log = <<>>

BranchNameSet == {BranchNames[i] : i \in 1..Len(BranchNames)}

\* load_config_from_path finds no configuration file in the repository.
NoRepoConfig ==
    [present |-> FALSE, include_path_patterns |-> {},
     exclude_path_patterns |-> {}, exclude_signatures |-> <<>>]

\* A repository without submodules and without a configuration file.
NoSubmodules ==
    /\ submodules = {}
    /\ include_submodules = FALSE
    /\ repo_config = NoRepoConfig

GitInit ==
    /\ parents \in {f \in [Commits -> UNION {ParentChoices(c) : c \in Commits}] :
                      \A c \in Commits : f[c] \in ParentChoices(c)}
    /\ branch_tip \in [BranchNameSet -> {NoBranch, Unresolvable} \cup Commits]
    /\ git_branch \in {"None", "main", "gone"}
    /\ scan_filenames \in BOOLEAN
    /\ NoSubmodules
    /\ GitStart

repoVars == <<parents, branch_tip, git_branch, scan_filenames, submodules,
              include_submodules, repo_config>>

Present(b) == b \in DOMAIN branch_tip /\ branch_tip[b] # NoBranch

\* self._repo.branches.get(name): None for a missing or unresolvable branch.
BranchGet(b) == Present(b) /\ branch_tip[b] # Unresolvable

\* The try block of chunks: the single branch is not found.
BranchNotFound ==
    /\ gpc = "select"
    /\ git_branch # "None"
    /\ ~BranchGet(git_branch)
    /\ gpc' = "raised"
    /\ UNCHANGED <<instanceVars, engineVars, detectVars, filterVars, repoVars, diff_log, branches, bidx, walked, curr_commit,
                   already_searched, delta_queue, cur_diff, yielded>>

SelectBranchesOfEitherKind ==
    /\ gpc = "select"
    /\ git_branch # "None" => BranchGet(git_branch)
    /\ branches' =
         IF git_branch # "None" THEN <<git_branch>>
         ELSE IF \A b \in BranchNameSet : ~Present(b) THEN <<"HEAD">>
         ELSE SelectSeq(BranchNames, Present)
    /\ bidx' = 1
    /\ gpc' = "branch"
    /\ UNCHANGED <<instanceVars, engineVars, detectVars, filterVars, repoVars, diff_log, walked,
                   curr_commit, already_searched, delta_queue, cur_diff,
                   yielded>>

\* The try block of chunks: `branches` is chosen.
SelectBranches ==
    /\ gpc = "select"
    /\ git_branch # "None" => BranchGet(git_branch)
    /\ branches' =
         IF git_branch # "None" THEN <<git_branch>>
         ELSE IF \A b \in LocalBranches : ~Present(b) THEN <<"HEAD">>
         ELSE SelectSeq(BranchNames, Present)
    /\ bidx' = 1
    /\ gpc' = "branch"
    /\ UNCHANGED <<instanceVars, engineVars, detectVars, filterVars, repoVars, diff_log, walked, curr_commit, already_searched,
                   delta_queue, cur_diff, yielded>>

BranchName == branches[bidx]

\* `except AttributeError: continue`: the branch cannot be resolved.
SkipBranch ==
    /\ gpc = "branch"
    /\ bidx <= Len(branches)
    /\ BranchName # "HEAD"
    /\ ~BranchGet(BranchName)
    /\ bidx' = bidx + 1
    /\ UNCHANGED <<instanceVars, engineVars, detectVars, filterVars, repoVars, diff_log, gpc, branches, walked, curr_commit,
                   already_searched, delta_queue, cur_diff, yielded>>

\* `commits = ...`, curr_commit = None: the walk of the branch begins.
StartWalk ==
    /\ gpc = "branch"
    /\ bidx <= Len(branches)
    /\ BranchName = "HEAD" \/ BranchGet(BranchName)
    /\ walked' = {}
    /\ curr_commit' = NoCommit
    /\ gpc' = "walk"
    /\ UNCHANGED <<instanceVars, engineVars, detectVars, filterVars, repoVars, diff_log, branches, bidx, already_searched, delta_queue,
                   cur_diff, yielded>>

HasFirstParent(c) == parents[c] # <<>> /\ parents[c][1] # 0

\* `except (IndexError, KeyError, TypeError): continue`.
SkipCommit(c) ==
    /\ gpc = "walk"
    /\ c \in WalkNext(BranchName)
    /\ ~HasFirstParent(c)
    /\ walked' = walked \cup {c}
    /\ curr_commit' = c
    /\ UNCHANGED <<instanceVars, engineVars, detectVars, filterVars, repoVars, diff_log, gpc, branches, bidx, already_searched,
                   delta_queue, cur_diff, yielded>>

\* A call made for the diff of the pair (prev, curr).
DiffCall(call, prev, curr) == [call |-> call, pair |-> <<prev, curr>>]

\* The diff is computed, then `if diff_hash in already_searched: continue`.
SkipSearchedDiff(c) ==
    /\ gpc = "walk"
    /\ c \in WalkNext(BranchName)
    /\ HasFirstParent(c)
    /\ AlreadySearched(DiffHash(parents[c][1], c))
    /\ walked' = walked \cup {c}
    /\ curr_commit' = c
    /\ diff_log' = Append(diff_log, DiffCall("diff", parents[c][1], c))
    /\ UNCHANGED <<instanceVars, engineVars, detectVars, filterVars, repoVars, gpc,
                   branches, bidx, already_searched, delta_queue, cur_diff,
                   yielded>>

\* The diff is computed; it was not searched yet: its hash is recorded,
\* renames are detected, its patches are iterated.
StartDiff(c) ==
    /\ gpc = "walk"
    /\ c \in WalkNext(BranchName)
    /\ HasFirstParent(c)
    /\ ~AlreadySearched(DiffHash(parents[c][1], c))
    /\ walked' = walked \cup {c}
    /\ curr_commit' = c
    /\ already_searched' = already_searched \cup {DiffHash(parents[c][1], c)}
    /\ delta_queue' = CommitDeltas(c)
    /\ cur_diff' = <<parents[c][1], c>>
    /\ gpc' = "deltas"
    /\ diff_log' = diff_log
                    \o <<DiffCall("diff", parents[c][1], c),
                         DiffCall("find_similar", parents[c][1], c),
                         DiffCall("_iter_diff_index", parents[c][1], c)>>
    /\ UNCHANGED <<instanceVars, engineVars, detectVars, filterVars, repoVars, branches,
                   bidx, yielded>>

\* The walk is over: "Finally, yield the first commit to the branch".
EndWalk ==
    /\ gpc = "walk"
    /\ WalkNext(BranchName) = {}
    /\ IF curr_commit # NoCommit
       THEN /\ delta_queue' = TreeDeltas(curr_commit)
            /\ cur_diff' = <<NoCommit, curr_commit>>
            /\ gpc' = "tree"
            /\ UNCHANGED bidx
       ELSE /\ bidx' = bidx + 1
            /\ gpc' = "branch"
            /\ UNCHANGED <<instanceVars, delta_queue, cur_diff>>
    /\ UNCHANGED <<instanceVars, engineVars, detectVars, filterVars, repoVars, diff_log, branches, walked, curr_commit, already_searched,
                   yielded>>

\* The patch _iter_diff_index looks at, and its file path.
Patch == Head(delta_queue)
FilePath(delta) ==
    IF delta.new_path # <<>> THEN delta.new_path ELSE delta.old_path

\* should_scan through its lru_cache: the value, and the state it leaves.
ShouldScanCallExcludesScanned(file_path) ==
    IF file_path \in DOMAIN should_scan_cache
    THEN [value |-> should_scan_cache[file_path], included |-> included_paths,
          excluded |-> excluded_paths, cache |-> should_scan_cache]
    ELSE LET r == should_scan(file_path)
         IN  [value |-> r.value, included |-> r.included,
              excluded |-> Initialized(excluded_paths_get \cup {file_path}),
              cache |-> should_scan_cache @@ (file_path :> r.value)]
ShouldScanCall(file_path) ==
    IF file_path \in DOMAIN should_scan_cache
    THEN [value |-> should_scan_cache[file_path], included |-> included_paths,
          excluded |-> excluded_paths, cache |-> should_scan_cache]
    ELSE LET r == should_scan(file_path)
         IN  [value |-> r.value, included |-> r.included,
              excluded |-> r.excluded,
              cache |-> should_scan_cache @@ (file_path :> r.value)]

\* One iteration of `for patch in diff` is over.
NextPatch ==
    /\ delta_queue' = Tail(delta_queue)
    /\ UNCHANGED <<instanceVars, engineVars, detectVars, repoVars, diff_log, gpc, branches, bidx, walked, curr_commit,
                   already_searched, cur_diff>>

SkipPatchEndsDiff ==
    /\ gpc \in {"deltas", "tree"}
    /\ delta_queue # <<>>
    /\ Patch.is_binary \/ Patch.status = "deleted"
    /\ delta_queue' = <<>>
    /\ UNCHANGED <<instanceVars, engineVars, detectVars, repoVars, diff_log, gpc, branches, bidx,
                   walked, curr_commit, already_searched, cur_diff, yielded,
                   filterVars>>
\* "Binary file skipped" / "Skipping as the file is deleted".
SkipPatch ==
    /\ gpc \in {"deltas", "tree"}
    /\ delta_queue # <<>>
    /\ Patch.is_binary \/ Patch.status = "deleted"
    /\ NextPatch
    /\ UNCHANGED <<instanceVars, yielded, filterVars>>

\* The header is stripped, should_scan is asked, the chunk is yielded if
\* it says so.
ScanPatch ==
    /\ gpc \in {"deltas", "tree"}
    /\ delta_queue # <<>>
    /\ ~Patch.is_binary
    /\ Patch.status # "deleted"
    /\ LET printable_diff ==
               IF scan_filenames THEN Patch.text
               ELSE SubSeq(Patch.text, header_length(Patch.text) + 1,
                           Len(Patch.text))
           r == ShouldScanCall(FilePath(Patch))
       IN  /\ included_paths' = r.included
           /\ excluded_paths' = r.excluded
           /\ field_writes' = WritesAfter(r)
           /\ should_scan_cache' = r.cache
           /\ should_scan_result' = [called |-> TRUE, path |-> FilePath(Patch),
                                     value |-> r.value]
           /\ yielded' =
                IF r.value
                THEN Append(yielded,
                        [contents |-> printable_diff,
                         file_path |-> FilePath(Patch),
                         commit |-> curr_commit, branch |-> BranchName,
                         diff |-> cur_diff])
                ELSE yielded
    /\ NextPatch
    /\ UNCHANGED <<instanceVars, include_path_patterns, exclude_path_patterns>>

\* `for patch in diff` is exhausted: back to the walk, or to the next branch.
EndDiff ==
    /\ gpc \in {"deltas", "tree"}
    /\ delta_queue = <<>>
    /\ IF gpc = "deltas"
       THEN gpc' = "walk" /\ UNCHANGED bidx
       ELSE gpc' = "branch" /\ bidx' = bidx + 1
    /\ UNCHANGED <<instanceVars, engineVars, detectVars, filterVars, repoVars, diff_log, branches, walked, curr_commit, already_searched,
                   delta_queue, cur_diff, yielded>>

\* `for branch_name in branches` is exhausted: the generator ends.
ChunksDone ==
    /\ gpc = "branch"
    /\ bidx > Len(branches)
    /\ gpc' = "done"
    /\ UNCHANGED <<instanceVars, engineVars, detectVars, filterVars, repoVars, diff_log, branches, bidx, walked, curr_commit,
                   already_searched, delta_queue, cur_diff, yielded>>

GitNext ==
    \/ BranchNotFound
    \/ SelectBranches
    \/ SkipBranch
    \/ StartWalk
    \/ \E c \in Commits : SkipCommit(c)
    \/ \E c \in Commits : SkipSearchedDiff(c)
    \/ \E c \in Commits : StartDiff(c)
    \/ EndWalk
    \/ SkipPatch
    \/ ScanPatch
    \/ EndDiff
    \/ ChunksDone

(***************************************************************************)
(* The construction of a git history producer: load_repo merges the       *)
(* patterns of the repository's configuration file and excludes the       *)
(* submodules; the chunks of a repository with one commit follow.         *)
(***************************************************************************)
SubmodulePool == {<<"b">>, <<"a", "b">>, <<"a", "+", "b">>}

RepoConfigPool ==
    {NoRepoConfig,
     [present |-> TRUE, include_path_patterns |-> {<<"a">>},
      exclude_path_patterns |-> {}, exclude_signatures |-> <<>>],
     [present |-> TRUE, include_path_patterns |-> {},
      exclude_path_patterns |-> {<<"b">>}, exclude_signatures |-> <<>>]}

\* A repository of one branch and one commit, before the producer is built.
SubmoduleInit ==
    /\ parents = [c \in Commits |-> <<>>]
    /\ branch_tip = [b \in BranchNameSet |->
                       IF b \in LocalBranches THEN 1 ELSE NoBranch]
    /\ git_branch = "None"
    /\ scan_filenames = FALSE
    /\ submodules \in SUBSET SubmodulePool
    /\ include_submodules \in BOOLEAN
    /\ repo_config \in RepoConfigPool
    /\ gpc = "new"
    /\ branches = <<>>
    /\ bidx = 0
    /\ walked = {}
    /\ curr_commit = NoCommit
    /\ already_searched = {}
    /\ delta_queue = <<>>
    /\ cur_diff = <<NoCommit, NoCommit>>
    /\ yielded = <<>>
    /\ diff_log = <<>>

\* filter_submodules: re.compile(f"^{module.path}") for every submodule,
\* added to the exclusions `excluded` read through the property.
filter_submodules(excluded) == Initialized(excluded \cup submodules)

\* load_repo, called by the constructor: the repository is opened and its
\* submodules are listed.
LoadRepo ==
    /\ gpc = "new"
    /\ LET inc == IF repo_config.present
                     /\ repo_config.include_path_patterns # {}
                  THEN Initialized(included_paths_get
                                   \cup repo_config.include_path_patterns)
                  ELSE included_paths
           exc == IF repo_config.present
                     /\ repo_config.exclude_path_patterns # {}
                  THEN Initialized(excluded_paths_get
                                   \cup repo_config.exclude_path_patterns)
                  ELSE excluded_paths
           exc_get == IF exc.set THEN exc.patterns ELSE exclude_path_patterns
           inc_writes == IF repo_config.present
                            /\ repo_config.include_path_patterns # {}
                         THEN PropertyWrites(included_paths) + 1 ELSE 0
           exc_writes == IF repo_config.present
                            /\ repo_config.exclude_path_patterns # {}
                         THEN PropertyWrites(excluded_paths) + 1 ELSE 0
       IN  /\ included_paths' = inc
           /\ excluded_paths' =
                IF include_submodules THEN exc ELSE filter_submodules(exc_get)
           /\ field_writes' =
                [included |-> field_writes.included + inc_writes,
                 excluded |-> field_writes.excluded + exc_writes
                     + (IF include_submodules THEN 0
                        ELSE PropertyWrites(exc) + 1)]
    /\ config_data' =
         IF repo_config.present THEN repo_config.exclude_signatures
         ELSE config_data
    /\ gpc' = "select"
    /\ UNCHANGED <<instanceVars, engineVars, exclude_signatures, exclude_entropy_patterns,
                   entropy_sensitivity, hex_entropy_score, b64_entropy_score,
                   excluded_signatures, warnings, entropy_limit_cache,
                   det_result, include_path_patterns, exclude_path_patterns,
                   should_scan_cache, should_scan_result, repoVars, diff_log, branches,
                   bidx, walked, curr_commit, already_searched, delta_queue,
                   cur_diff, yielded>>

\* load_repo: listing the submodules raises AttributeError, which
\* filter_submodules turns into a TartufoException.
LoadRepoRaises ==
    /\ gpc = "new"
    /\ ~include_submodules
    /\ gpc' = "raised"
    /\ UNCHANGED <<instanceVars, engineVars, detectVars, filterVars, repoVars, diff_log, branches,
                   bidx, walked, curr_commit, already_searched, delta_queue,
                   cur_diff, yielded>>

SubmoduleNext ==
    \/ LoadRepo
    \/ LoadRepoRaises
    \/ SelectBranches
    \/ StartWalk
    \/ \E c \in Commits : SkipCommit(c)
    \/ EndWalk
    \/ ScanPatch
    \/ EndDiff
    \/ ChunksDone

(***************************************************************************)
(* The detectors called one at a time, under every configuration of the    *)
(* pools below.                                                            *)
(***************************************************************************)
\* DeprecationWarnings counted before the model stops a configuration.
MaxWarnings == 2

\* The rule names regex rules are resolved from.
DetectRuleNames == {"rule1", "rule2"}

\* Strings of findings: a literal, and signatures of findings.
Literal == <<"a", "b">>
SignatureOfMatch == generate_signature(<<"!">>, <<"a">>)
SignatureOfString == generate_signature(<<"a", "b", "g", "h">>, <<"b">>)

\* global_options.exclude_signatures and config_data["exclude_signatures"].
OptionSignaturePool ==
    {<<>>, <<FlatEntry(Literal)>>, <<TableEntry(SignatureOfMatch)>>,
     <<TableEntry(SignatureOfMatch), FlatEntry(Literal)>>}
ConfigSignaturePool ==
    {<<>>, <<FlatEntry(SignatureOfString)>>, <<TableEntry(Literal)>>}

\* global_options.exclude_entropy_patterns, compiled.
EntropyPatternPool ==
    {<<>>,
     <<Rule("word", {"g"}, NoPathPattern, "Match", "Word")>>,
     <<Rule("line", {"!"}, PathPattern(<<"a">>), "Search", "Line"),
       Rule("scope", {"a"}, NoPathPattern, "Match", "Paragraph")>>}

SensitivityPool == {15, 25}

\* The chunks the detectors are called with.
ChunkPool ==
    {Chunk(1), Chunk(2), Chunk(3),
     ChunkOf(<<"!", " ", "!", "g">>, <<"a">>, [commit |-> 1]),
     ChunkOf(<<"a", "b", "g", "h">>, <<"b">>, [commit |-> 2]),
     ChunkOf(<<"a", "b", "\n", "g", "h">>, <<"a">>, [commit |-> 2])}

\* The candidate strings of a line, of either family.
StringsOf(line) ==
    LET words == split_words(line)
        found == Flatten([i \in 1..Len(words) |->
                     find_strings_by_regex(words[i], BASE64_REGEX)
                     \o find_strings_by_regex(words[i], HEX_REGEX)])
    IN  {found[i] : i \in 1..Len(found)}
LinesOf(chunk) ==
    LET lines == split_lines(chunk.contents)
    IN  {lines[i] : i \in 1..Len(lines)}

\* The issues whose signature is read.
IssuePool ==
    UNION {{Issue("Entropy", s, chunk),
            [Issue("RegEx", s, chunk) EXCEPT !.issue_detail = "rule1"]} :
           s \in {<<"!">>, <<"a", "b">>}, chunk \in ChunkPool}

\* A constructed engine with the options given.
DetectInitWith(opt, cfg, patterns, sensitivity) ==
    /\ exclude_signatures = opt
    /\ config_data = cfg
    /\ excluded_signatures = Unresolved
    /\ warnings = 0
    /\ exclude_entropy_patterns = patterns
    /\ entropy_sensitivity = sensitivity
    /\ hex_entropy_score = NoScore
    /\ b64_entropy_score = NoScore
    /\ entropy_limit_cache = [hex |-> NotCached, b64 |-> NotCached]
    /\ det_result = NoDetResult
\* No signature and no entropy pattern is excluded; sensitivity 15.
DetectIdle == DetectInitWith(<<>>, <<>>, <<>>, 15)

DetectInit ==
    \E opt \in OptionSignaturePool, cfg \in ConfigSignaturePool,
       patterns \in EntropyPatternPool, sensitivity \in SensitivityPool :
        DetectInitWith(opt, cfg, patterns, sensitivity)

\* A detector reads self.excluded_signatures: the field and the warnings
\* after it.
ConsultExcludedSignatures ==
    /\ warnings + excluded_signatures_get.warned <= MaxWarnings
    /\ excluded_signatures' = excluded_signatures_get.field
    /\ warnings' = warnings + excluded_signatures_get.warned

\* The excluded_signatures property is read.
ExcludedSignaturesRead ==
    /\ ConsultExcludedSignatures
    /\ det_result' = [op |-> "excluded_signatures",
                      resolved |-> ~excluded_signatures.set,
                      raised |-> excluded_signatures_get.raised,
                      value |-> excluded_signatures_get.value,
                      warned |-> excluded_signatures_get.warned]
    /\ UNCHANGED <<instanceVars, engineVars, filterVars, gitVars, detectOptions,
                   entropy_limit_cache>>

\* The signature property of an issue is read.
SignatureRead(issue) ==
    /\ det_result' = [op |-> "signature", issue |-> issue,
                      value |-> signature(issue),
                      previous |-> IF det_result.op = "signature"
                                   THEN <<[issue |-> det_result.issue,
                                           value |-> det_result.value]>>
                                   ELSE <<>>]
    /\ UNCHANGED <<instanceVars, engineVars, filterVars, gitVars, detectOptions,
                   excluded_signatures, warnings, entropy_limit_cache>>

\* evaluate_entropy_string is run to its end.
EvaluateEntropyString(chunk, line, string, min_entropy_score) ==
    /\ ConsultExcludedSignatures
    /\ LET r == evaluate_entropy_string(chunk, line, string,
                                        min_entropy_score)
       IN  det_result' = [op |-> "evaluate_entropy_string",
                          chunk |-> chunk, line |-> line, string |-> string,
                          min_entropy_score |-> min_entropy_score,
                          raised |-> r.raised, issues |-> r.issues]
    /\ UNCHANGED <<instanceVars, engineVars, filterVars, gitVars, detectOptions,
                   entropy_limit_cache>>

\* scan_regex is run to its end.
ScanRegexConsults(chunk) ==
    \E name \in rules_regexes :
        LET rule == RegexRule(name)
        IN  /\ rule.path_pattern.set =>
                  PatternMatch(rule.path_pattern.pattern, chunk.file_path)
            /\ findall(rule.pattern, chunk.contents) # <<>>
ScanRegex(chunk) ==
    /\ IF ScanRegexConsults(chunk) THEN ConsultExcludedSignatures
       ELSE UNCHANGED <<instanceVars, excluded_signatures, warnings>>
    /\ LET r == scan_regex(chunk)
       IN  det_result' = [op |-> "scan_regex", chunk |-> chunk,
                          raised |-> r.raised, issues |-> r.issues]
    /\ UNCHANGED <<instanceVars, engineVars, filterVars, gitVars, detectOptions,
                   entropy_limit_cache>>

SignatureNext == \E issue \in IssuePool : SignatureRead(issue)

\* rule_matches called on its own.
RulePool ==
    {Rule("r", pattern, path_pattern, re_match_type, re_match_scope) :
        pattern \in {{"a"}, {"a", "b"}},
        path_pattern \in {NoPathPattern, PathPattern(<<"a">>),
                          PathPattern(<<"b">>)},
        re_match_type \in {"Match", "Search"},
        re_match_scope \in {"Word", "Line", "Paragraph"}}
RuleStrings == {<<"a">>, <<"!">>, <<"!", "a">>}
RuleLines == {<<"a", " ", "!">>, <<"!", " ", "b">>}
RulePaths == {<<"a">>, <<"b">>, <<"b", "a">>}

RuleMatches(rule, string, line, path) ==
    /\ LET r == rule_matches(rule, string, line, path)
       IN  det_result' = [op |-> "rule_matches", rule |-> rule,
                          string |-> string, line |-> line, path |-> path,
                          raised |-> r.raised, value |-> r.value]
    /\ UNCHANGED <<instanceVars, engineVars, filterVars, gitVars, detectOptions,
                   excluded_signatures, warnings, entropy_limit_cache>>

RuleNext ==
    \E rule \in RulePool, string \in RuleStrings, line \in RuleLines,
       path \in RulePaths : RuleMatches(rule, string, line, path)

\* Number of reads of each entropy limit that are followed.
MaxReads == 2
\* Largest entropy sensitivity configured.
MaxSensitivity == 100

\* The reads of each limit made so far.
NoReads == [hex |-> 0, b64 |-> 0]
Reads == IF "reads" \in DOMAIN det_result THEN det_result.reads ELSE NoReads

LimitsInit ==
    /\ exclude_signatures = <<>>
    /\ config_data = <<>>
    /\ excluded_signatures = Unresolved
    /\ warnings = 0
    /\ exclude_entropy_patterns = <<>>
    /\ entropy_sensitivity \in {NoSensitivity} \cup 0..MaxSensitivity
    /\ hex_entropy_score \in {NoScore, 0, 2000}
    /\ b64_entropy_score \in {NoScore, 0, 3000}
    /\ entropy_limit_cache = [hex |-> NotCached, b64 |-> NotCached]
    /\ det_result = NoDetResult

\* self.hex_entropy_limit is read.
HexEntropyLimitRead ==
    /\ Reads.hex < MaxReads
    /\ entropy_limit_cache' =
         [entropy_limit_cache EXCEPT !.hex = hex_entropy_limit_get.field]
    /\ warnings' = warnings + hex_entropy_limit_get.warned
    /\ det_result' = [op |-> "hex_entropy_limit",
                      value |-> hex_entropy_limit_get.value,
                      reads |-> [Reads EXCEPT !.hex = @ + 1]]
    /\ UNCHANGED <<instanceVars, engineVars, filterVars, gitVars, detectOptions,
                   excluded_signatures>>

\* self.b64_entropy_limit is read.
B64EntropyLimitRead ==
    /\ Reads.b64 < MaxReads
    /\ entropy_limit_cache' =
         [entropy_limit_cache EXCEPT !.b64 = b64_entropy_limit_get.field]
    /\ warnings' = warnings + b64_entropy_limit_get.warned
    /\ det_result' = [op |-> "b64_entropy_limit",
                      value |-> b64_entropy_limit_get.value,
                      reads |-> [Reads EXCEPT !.b64 = @ + 1]]
    /\ UNCHANGED <<instanceVars, engineVars, filterVars, gitVars, detectOptions,
                   excluded_signatures>>

\* scan_entropy is run to its end on a chunk: it reads a limit for every
\* string it evaluates.
ScanEntropy(chunk) ==
    LET candidates == EntropyCandidates(chunk)
        Of(family) == Cardinality({i \in 1..Len(candidates) :
                                     candidates[i].family = family})
        r == scan_entropy(chunk)
    IN  /\ Reads.hex + Of("hex") <= MaxReads
        /\ Reads.b64 + Of("b64") <= MaxReads
        /\ ~r.raised
        /\ entropy_limit_cache' = ChunkLimits(chunk).field
        /\ warnings' = warnings + ChunkLimits(chunk).warned
        /\ det_result' = [op |-> "scan_entropy", chunk |-> chunk,
                          issues |-> r.issues,
                          reads |-> [hex |-> Reads.hex + Of("hex"),
                                     b64 |-> Reads.b64 + Of("b64")]]
        /\ UNCHANGED <<instanceVars, engineVars, filterVars, gitVars, detectOptions,
                       excluded_signatures>>

LimitsNext ==
    \/ HexEntropyLimitRead
    \/ B64EntropyLimitRead
    \/ \E chunk \in {Chunk(1), Chunk(2)} : ScanEntropy(chunk)

DetectNext ==
    \/ ExcludedSignaturesRead
    \/ \E chunk \in ChunkPool : \E line \in LinesOf(chunk) :
         \E string \in StringsOf(line) :
           \E min_entropy_score \in {hex_entropy_limit, b64_entropy_limit} :
             EvaluateEntropyString(chunk, line, string, min_entropy_score)
    \/ \E chunk \in ChunkPool : ScanRegex(chunk)

(***************************************************************************)
(* Several engine instances.  _scan_lock is a class attribute of           *)
(* ScannerBase that __init__ never rebinds, so every instance's            *)
(* `with self._scan_lock` takes the same lock (scan_lock, held here by the *)
(* number of the instance whose scan holds it).  _completed and _issues    *)
(* are assigned through self and so are per instance.  Thread e scans      *)
(* instance e; all instances are built from the same options.              *)
(***************************************************************************)
\* A thread calls scan() on its instance and reaches `with self._scan_lock`.
InstanceCall(e) ==
    /\ thread_pc[e] \in {"idle", "returned", "raised"}
    /\ thread_scans[e] < MaxScans
    /\ thread_pc' = [thread_pc EXCEPT ![e] = "lock"]
    /\ thread_scans' = [thread_scans EXCEPT ![e] = @ + 1]
    /\ UNCHANGED <<engineVars, filterVars, gitVars, detectVars,
                   instance_completed, instance_issues, instance_chunks>>

\* The lock is free and the thread takes it.
InstanceEnter(e) ==
    /\ thread_pc[e] = "lock"
    /\ scan_lock = NoCall
    /\ scan_lock' = e
    /\ thread_pc' = [thread_pc EXCEPT ![e] = "check"]
    /\ UNCHANGED <<options, completed, issues, pc, kind, mode, pulls, pending,
                   emitted, result, outcome, blockedBehind, priorReturned,
                   filterVars, gitVars, detectVars, thread_scans,
                   instance_completed, instance_issues, instance_chunks>>

\* if self._completed: yield from self._issues; return
InstanceReplay(e) ==
    /\ thread_pc[e] = "check"
    /\ instance_completed[e]
    /\ scan_lock' = NoCall
    /\ thread_pc' = [thread_pc EXCEPT ![e] = "returned"]
    /\ UNCHANGED <<options, completed, issues, pc, kind, mode, pulls, pending,
                   emitted, result, outcome, blockedBehind, priorReturned,
                   filterVars, gitVars, detectVars, thread_scans,
                   instance_completed, instance_issues, instance_chunks>>

\* One of the two checks raises ConfigException, which releases the lock.
InstanceRaise(e) ==
    /\ thread_pc[e] = "check"
    /\ ~instance_completed[e]
    /\ ~PreconditionsOK
    /\ scan_lock' = NoCall
    /\ thread_pc' = [thread_pc EXCEPT ![e] = "raised"]
    /\ UNCHANGED <<options, completed, issues, pc, kind, mode, pulls, pending,
                   emitted, result, outcome, blockedBehind, priorReturned,
                   filterVars, gitVars, detectVars, thread_scans,
                   instance_completed, instance_issues, instance_chunks>>

\* self._issues = [] and the for loop over self.chunks starts.
InstanceBegin(e) ==
    /\ thread_pc[e] = "check"
    /\ ~instance_completed[e]
    /\ PreconditionsOK
    /\ instance_issues' = [instance_issues EXCEPT ![e] = <<>>]
    /\ instance_chunks' = [instance_chunks EXCEPT ![e] = NumChunks]
    /\ thread_pc' = [thread_pc EXCEPT ![e] = "body"]
    /\ UNCHANGED <<engineVars, filterVars, gitVars, detectVars, thread_scans,
                   instance_completed>>

\* One chunk is scanned; an issue found in it is appended and yielded, the
\* generator keeping the lock while it is suspended at the yield.
InstanceChunk(e) ==
    /\ thread_pc[e] = "body"
    /\ instance_chunks[e] > 0
    /\ \E found \in BOOLEAN :
         instance_issues' =
           [instance_issues EXCEPT
              ![e] = IF found THEN Append(@, instance_chunks[e]) ELSE @]
    /\ instance_chunks' = [instance_chunks EXCEPT ![e] = @ - 1]
    /\ UNCHANGED <<engineVars, filterVars, gitVars, detectVars, thread_pc,
                   thread_scans, instance_completed>>

\* The producer is exhausted: self._completed = True, the lock is released.
InstanceFinish(e) ==
    /\ thread_pc[e] = "body"
    /\ instance_chunks[e] = 0
    /\ instance_completed' = [instance_completed EXCEPT ![e] = TRUE]
    /\ scan_lock' = NoCall
    /\ thread_pc' = [thread_pc EXCEPT ![e] = "returned"]
    /\ UNCHANGED <<options, completed, issues, pc, kind, mode, pulls, pending,
                   emitted, result, outcome, blockedBehind, priorReturned,
                   filterVars, gitVars, detectVars, thread_scans,
                   instance_issues, instance_chunks>>

InstanceNext ==
    \E e \in Engines :
        \/ InstanceCall(e)
        \/ InstanceEnter(e)
        \/ InstanceReplay(e)
        \/ InstanceRaise(e)
        \/ InstanceBegin(e)
        \/ InstanceChunk(e)
        \/ InstanceFinish(e)

(***************************************************************************)
(* Specifications.                                                         *)
(***************************************************************************)
EngineIdle == EngineInit /\ entropy /\ regex /\ rules_regexes = RuleNames
FilterIdle == FilterInitWith({}, {})
GitIdle ==
    /\ parents = [c \in Commits |-> <<>>]
    /\ branch_tip = [b \in BranchNameSet |-> NoBranch]
    /\ git_branch = "None"
    /\ scan_filenames = FALSE
    /\ NoSubmodules
    /\ GitStart

\* The engine: calls of scan and issues on one engine instance.
Init == EngineInit /\ FilterIdle /\ GitIdle /\ DetectIdle
Next == EngineNext
Spec == Init /\ [][Next]_vars

\* A step of call g after the call is made: of its thread, of the chunk
\* producer answering next() with an error or a chunk, or of the consumer of
\* its suspended generator.
Progress(g) ==
    \/ Acquire(g)
    \/ ReplayCached(g)
    \/ PreconditionError(g)
    \/ StartScan(g)
    \/ ChunksRaise(g)
    \/ NextChunk(g)
    \/ DetectorRaise(g)
    \/ AppendIssue(g)
    \/ YieldIssue(g)
    \/ ReplayYield(g)
    \/ ReplayReturn(g)
    \/ Resume(g)
    \/ Close(g)
    \/ SetCompleted(g)
    \/ Release(g)
    \/ IssuesReturn(g)

\* The engine, its regex detector alone, with every thread scheduled: a
\* call that can take a step takes one, and the consumer of a suspended
\* scan() generator resumes or closes it.
InitLive ==
    /\ entropy = FALSE
    /\ regex \in BOOLEAN
    /\ rules_regexes \in SUBSET RuleNames
    /\ EngineStart
    /\ FilterIdle
    /\ GitIdle
    /\ DetectIdle
SpecLive ==
    InitLive /\ [][Next]_vars /\ \A g \in Calls : WF_vars(Progress(g))

\* Path filtering: calls of should_scan under every configuration.
InitFilter == EngineIdle /\ FilterInit /\ GitIdle /\ DetectIdle
NextFilter == FilterNext
SpecFilter == InitFilter /\ [][NextFilter]_vars

\* The git history producer: one run of GitRepoScanner.chunks over every
\* repository of the bounds, with and without an exclusion pattern.
InitGit ==
    /\ EngineIdle
    /\ \E exc \in {{}, {<<"b">>}} : FilterInitWith({}, exc)
    /\ GitInit
    /\ DetectIdle
NextGit == GitNext
SpecGit == InitGit /\ [][NextGit]_vars

\* The construction of a git history producer and its chunks.
InitSubmodule ==
    /\ EngineIdle
    /\ \E inc \in {{}, {<<"a">>}, {<<"b">>}} :
         \E exc \in {{}, {<<"b">>}} : FilterInitWith(inc, exc)
    /\ SubmoduleInit
    /\ DetectIdle
NextSubmodule == SubmoduleNext
SpecSubmodule == InitSubmodule /\ [][NextSubmodule]_vars

\* The detectors: direct calls under every configuration of the pools.
InitDetect ==
    /\ entropy = TRUE
    /\ regex = TRUE
    /\ rules_regexes \in SUBSET DetectRuleNames
    /\ EngineStart
    /\ FilterIdle
    /\ GitIdle
    /\ DetectInit
NextDetect == DetectNext
SpecDetect == InitDetect /\ [][NextDetect]_vars

\* Issue.signature: reads of the signature of the issues of the pool.
\* The entropy limits read one at a time and by scan_entropy.
InitLimits ==
    /\ entropy = TRUE
    /\ regex = TRUE
    /\ rules_regexes = {}
    /\ EngineStart
    /\ FilterIdle
    /\ GitIdle
    /\ LimitsInit
NextLimits == LimitsNext
SpecLimits == InitLimits /\ [][NextLimits]_vars

\* rule_matches called on its own.
InitRule == EngineIdle /\ FilterIdle /\ GitIdle /\ DetectIdle
NextRule == RuleNext
SpecRule == InitRule /\ [][NextRule]_vars

InitSignature == EngineIdle /\ FilterIdle /\ GitIdle /\ DetectIdle
NextSignature == SignatureNext
SpecSignature == InitSignature /\ [][NextSignature]_vars

\* Several engine instances, each scanned by its own thread.
InitInstances == EngineInit /\ FilterIdle /\ GitIdle /\ DetectIdle
NextInstances == InstanceNext
SpecInstances == InitInstances /\ [][NextInstances]_vars

TypeOK ==
    /\ completed \in BOOLEAN
    /\ scan_lock \in Calls \cup {NoCall}
    /\ \A g \in Calls : outcome[g] \in Outcomes

(***************************************************************************)
(* Properties of the engine (specification Spec).                          *)
(***************************************************************************)
InBody(g) ==
    pc[g] \in {"locked", "replay", "scanning", "processing", "appended",
               "suspended", "epilogue"}

Started == {g \in Calls : pulls[g] > 0}
Aborted == {g \in Calls : outcome[g] \in {"closed", "config_error", "repo_error"}}

\* The first scan of call h reached `self._completed = True`.
RanToCompletion(h) ==
    /\ mode[h] = "first"
    /\ \/ pc[h] \in {"epilogue", "issues_return"}
       \/ outcome[h] = "returned"

\* C1: whenever completed is true, the issue list is the list of all issues
\* of the full chunk sequence, in order.
C1_CompletedHasAllIssues == completed => issues = AllIssues

C1_Witness ==
    /\ completed
    /\ Len(issues) > 1
    /\ \E h \in Calls : outcome[h] = "closed" /\ emitted[h] # <<>>

\* C2: at most one call is inside the scan body (between entering and
\* leaving the with block, suspended at a yield included), and it is the
\* holder of the lock.
C2_MutualExclusion ==
    /\ Cardinality({g \in Calls : InBody(g)}) <= 1
    /\ \A g \in Calls : InBody(g) => scan_lock = g

C2_Witness ==
    \E g, h \in Calls :
        /\ g # h
        /\ pc[g] = "suspended"
        /\ mode[g] = "first"
        /\ pc[h] = "waiting"

\* C3 (as claimed): the chunk sequence is started by at most one call.
C3_ChunksStartedAtMostOnce == Cardinality(Started) <= 1

\* C3 (amended): every start of the chunk sequence but one belongs to a scan
\* that ended without completing (closed by its caller, or ended by an
\* error); and once completed is true no call that has not yet started the
\* chunk sequence ever starts it.
C3_ChunksStartedOncePerUnfinishedScan ==
    /\ Cardinality(Started \ Aborted) <= 1
    /\ completed => \A g \in Calls : ~(pc[g] = "scanning" /\ pulls[g] = 0)

C3_Witness ==
    /\ Cardinality(Started) = 2
    /\ Cardinality(Started \cap Aborted) = 1
    /\ completed

C5_SecondScanReplaysSame ==
    /\ \A g, h \in Calls :
         FullyConsumed(g) /\ FullyConsumed(h) => emitted[g] = emitted[h]
    /\ \A h \in Calls :
         priorReturned[h] =>
            /\ pulls[h] = 0
            /\ mode[h] # "first"
            /\ pending[h] = <<>>
            /\ FullyConsumed(h) => emitted[h] = issues

C5_Witness ==
    \E g, h \in Calls :
        /\ g # h
        /\ FullyConsumed(g)
        /\ mode[g] = "first"
        /\ priorReturned[h]
        /\ FullyConsumed(h)
        /\ Len(emitted[h]) > 1

\* C6: completed only changes from false to true, in a step taken while the
\* lock is held (before and after the step) by the call that exhausted the
\* chunk sequence; once true it stays true.
C6_CompletedSetOnceUnderLock ==
    [][/\ completed => completed'
       /\ completed' # completed =>
            /\ scan_lock # NoCall
            /\ scan_lock' = scan_lock
            /\ pc[scan_lock] = "scanning"
            /\ \A g \in Calls : g # scan_lock => pc'[g] = pc[g]]_vars

C6_Witness ==
    /\ completed
    /\ scan_lock # NoCall
    /\ \E g \in Calls : pc[g] = "waiting"

\* C7: with neither detector requested, or regex requested and no rule, no
\* call ever pulls a chunk or enters the for loop, and the step that leaves
\* the precondition check raises a configuration error, leaves completed
\* false and the issue list unchanged, and frees the lock.
NoAnalysisPossible ==
    \/ ~entropy /\ ~regex
    \/ regex /\ Cardinality(rules_regexes) = 0

C7_PreconditionErrorBeforeAnyChunk ==
    /\ [](NoAnalysisPossible =>
            \A g \in Calls : pulls[g] = 0 /\ mode[g] # "first")
    /\ [][\A g \in Calls :
            (NoAnalysisPossible /\ pc[g] = "locked" /\ pc'[g] # "locked") =>
                /\ outcome'[g] = "config_error"
                /\ pc'[g] = "done"
                /\ ~completed'
                /\ issues' = issues
                /\ scan_lock' = NoCall]_vars

C7_Witness ==
    /\ entropy /\ regex /\ rules_regexes = {}
    /\ scan_lock = NoCall
    /\ ~completed
    /\ \A g \in Calls : outcome[g] = "config_error"

\* C8: a step in which a call ends by an error leaves completed false and
\* frees the lock; a call that ended by an error pulls and yields nothing
\* more; and every call that returns normally returns all the issues of the
\* full chunk sequence (scan: the issues yielded; issues: the list).
C8_ErrorAbortsAndNoPartialResult ==
    /\ [][\A g \in Calls :
            (outcome[g] = "none" /\ outcome'[g] \in Errors) =>
                /\ ~completed /\ ~completed'
                /\ pc'[g] = "done"
                /\ scan_lock' = NoCall]_vars
    /\ [][\A g \in Calls :
            outcome[g] \in Errors =>
                /\ outcome'[g] = outcome[g]
                /\ pulls'[g] = pulls[g]
                /\ emitted'[g] = emitted[g]]_vars
    /\ [](\A g \in Calls :
            outcome[g] = "returned" =>
                IF kind[g] = "issues"
                THEN result[g] = [set |-> TRUE, list |-> AllIssues]
                ELSE emitted[g] = AllIssues)

C8_Witness ==
    \E g, h \in Calls :
        /\ outcome[g] \in Errors
        /\ pulls[g] > 1
        /\ emitted[g] # <<>>
        /\ kind[h] = "issues"
        /\ outcome[h] = "returned"
        /\ Len(result[h].list) > Len(emitted[g])

(***************************************************************************)
(* Properties of should_scan (specification SpecFilter).                   *)
(***************************************************************************)
MatchesAny(ps, file_path) == \E p \in ps : PatternMatch(p, file_path)

\* What the claim says should_scan returns for a path, from the configured
\* inclusion and exclusion patterns.
ClaimedShouldScan(file_path) ==
    /\ include_path_patterns = {} \/ MatchesAny(include_path_patterns, file_path)
    /\ exclude_path_patterns = {}
          \/ \A p \in exclude_path_patterns : ~PatternMatch(p, file_path)

\* C9: every value should_scan returns (computed or from its cache) is true
\* exactly when the path passes inclusion (none configured, or one matches)
\* and passes exclusion (none configured, or none matches); a path matched
\* by both an inclusion and an exclusion pattern is rejected.
C9_ShouldScanIffIncludedAndNotExcluded ==
    /\ should_scan_result.called =>
         /\ should_scan_result.value = ClaimedShouldScan(should_scan_result.path)
         /\ (/\ MatchesAny(include_path_patterns, should_scan_result.path)
             /\ MatchesAny(exclude_path_patterns, should_scan_result.path))
                => should_scan_result.value = FALSE
    /\ \A file_path \in DOMAIN should_scan_cache :
         should_scan_cache[file_path] = ClaimedShouldScan(file_path)

C9_Witness ==
    /\ should_scan_result.called
    /\ MatchesAny(include_path_patterns, should_scan_result.path)
    /\ MatchesAny(exclude_path_patterns, should_scan_result.path)
    /\ should_scan_result.value = FALSE
    /\ \E file_path \in DOMAIN should_scan_cache :
         should_scan_cache[file_path] = TRUE

(***************************************************************************)
(* Properties of the git history producer (specification SpecGit).         *)
(***************************************************************************)
\* The branches of the `branches` list whose walk returns commit c.
BranchesReaching(c) ==
    {i \in 1..Len(branches) :
        /\ branches[i] = "HEAD" \/ BranchGet(branches[i])
        /\ c \in WalkSet(branches[i])}

\* The file paths of the chunks yielded so far for the diff (prev, curr).
YieldedPaths(prev, curr) ==
    LET OfDiff(chunk) == chunk.diff = <<prev, curr>>
        chunks == SelectSeq(yielded, OfDiff)
    IN  [i \in 1..Len(chunks) |-> chunks[i].file_path]

\* The file paths of the chunks of the diff of commit c against its first
\* parent: its text patches that are not deletions and pass the filter.
DiffPaths(c) ==
    LET Scanned(delta) ==
            /\ ~delta.is_binary
            /\ delta.status # "deleted"
            /\ ClaimedShouldScan(FilePath(delta))
        deltas == SelectSeq(CommitDeltas(c), Scanned)
    IN  [i \in 1..Len(deltas) |-> FilePath(deltas[i])]

IsPrefix(s, t) == Len(s) <= Len(t) /\ SubSeq(t, 1, Len(s)) = s

\* C10: for every commit with a first parent that the walks of more than one
\* selected branch return, the chunks yielded for its diff against the first
\* parent are never more than the chunks of that diff, taken once, and are
\* exactly those when the producer has ended.
C10_SharedDiffYieldedOnce ==
    \A c \in Commits :
        (HasFirstParent(c) /\ Cardinality(BranchesReaching(c)) > 1) =>
            /\ IsPrefix(YieldedPaths(parents[c][1], c), DiffPaths(c))
            /\ gpc = "done" => YieldedPaths(parents[c][1], c) = DiffPaths(c)

C10_Witness ==
    /\ gpc = "done"
    /\ Len(branches) = 2
    /\ branch_tip[branches[1]] # branch_tip[branches[2]]
    /\ \E c \in Commits :
        /\ HasFirstParent(c)
        /\ Cardinality(BranchesReaching(c)) = 2
        /\ Len(CommitDeltas(c)) > 1
        /\ Len(YieldedPaths(parents[c][1], c)) = 1

\* The chunks yielded for the full tree of commit c (the diff of the empty
\* tree against its tree), and those the tree has to offer.
TreeYieldedPaths(c) == YieldedPaths(NoCommit, c)
TreePaths(c) ==
    LET Scanned(delta) ==
            /\ ~delta.is_binary
            /\ delta.status # "deleted"
            /\ ClaimedShouldScan(FilePath(delta))
        deltas == SelectSeq(TreeDeltas(c), Scanned)
    IN  [i \in 1..Len(deltas) |-> FilePath(deltas[i])]

\* The selected branches whose walk ends with commit c: a topological walk
\* ends with a commit without local parents, and c is the only such commit
\* the branch reaches.
BranchesEndingAt(c) ==
    {i \in 1..Len(branches) :
        /\ branches[i] # "HEAD"
        /\ BranchGet(branches[i])
        /\ {r \in Reach(branch_tip[branches[i]]) : LocalParents(r) = {}} = {c}}

\* C11: a parentless root commit that ends the walk of several selected
\* branches has the chunks of its full tree yielded exactly once in the
\* combined chunk sequence, not once per branch.
C11_RootTreeYieldedOnce ==
    \A c \in Commits :
        (parents[c] = <<>> /\ Cardinality(BranchesEndingAt(c)) > 1) =>
            /\ IsPrefix(TreeYieldedPaths(c), TreePaths(c))
            /\ gpc = "done" => TreeYieldedPaths(c) = TreePaths(c)

(***************************************************************************)
(* Properties of Issue.signature (specification SpecSignature).            *)
(***************************************************************************)
SameStringAndPath(i, j) ==
    /\ i.matched_string = j.matched_string
    /\ i.chunk.file_path = j.chunk.file_path

\* C12: the signature of an issue depends only on its matched string and
\* its chunk's file path: two reads, of the same issue or of two issues
\* with equal matched string and equal file path, give the same value,
\* whatever the chunk contents, chunk metadata, issue kind or issue detail.
C12_SignatureOfStringAndPath ==
    (det_result.op = "signature" /\ det_result.previous # <<>>) =>
        (SameStringAndPath(det_result.previous[1].issue, det_result.issue)
            => det_result.previous[1].value = det_result.value)

\* Two issues that agree on string and path only have been read.
C12_Witness ==
    /\ det_result.op = "signature"
    /\ det_result.previous # <<>>
    /\ LET i == det_result.previous[1].issue
           j == det_result.issue
       IN  /\ SameStringAndPath(i, j)
           /\ i.chunk.contents # j.chunk.contents
           /\ i.chunk.metadata # j.chunk.metadata
           /\ i.issue_type # j.issue_type
           /\ i.issue_detail # j.issue_detail
           /\ det_result.value = generate_signature(j.matched_string,
                                                    j.chunk.file_path)


(***************************************************************************)
(* Properties of the detectors (specification SpecDetect).                 *)
(***************************************************************************)
\* The signatures the configuration excludes, of either source and shape.
ConfiguredSignatures ==
    LET signatures == exclude_signatures \o config_data
    IN  {signatures[i].signature : i \in 1..Len(signatures)}

\* The decision rule for a candidate string of the entropy detector.
ClaimedEntropyIssue(chunk, line, string, limit) ==
    /\ string \notin ConfiguredSignatures
    /\ generate_signature(string, chunk.file_path) \notin ConfiguredSignatures
    /\ calculate_entropy(string) > limit
    /\ \A i \in 1..Len(exclude_entropy_patterns) :
          ~rule_matches(exclude_entropy_patterns[i], string, line,
                        chunk.file_path).value

\* C13: for every candidate string the entropy detector evaluates (to the
\* end, without a configuration error), an Entropy issue is produced if and
\* only if neither the string nor its signature is in the excluded
\* signatures, its entropy is strictly greater than the limit, and no
\* entropy-exclusion rule matches the (string, line, file path) triple.
C13_EntropyIssueIffNotExcludedAndAboveLimit ==
    (det_result.op = "evaluate_entropy_string" /\ ~det_result.raised) =>
        det_result.issues =
            IF ClaimedEntropyIssue(det_result.chunk, det_result.line,
                                   det_result.string,
                                   det_result.min_entropy_score)
            THEN <<Issue("Entropy", det_result.string, det_result.chunk)>>
            ELSE <<>>

\* A string scoring above the limit was flagged although signatures and
\* entropy patterns are excluded by the configuration.
C13_Witness ==
    /\ det_result.op = "evaluate_entropy_string"
    /\ ~det_result.raised
    /\ Len(det_result.issues) = 1
    /\ ConfiguredSignatures # {}
    /\ exclude_entropy_patterns # <<>>
    /\ calculate_entropy(det_result.string) > det_result.min_entropy_score


\* The number of elements of a sequence equal to x.
Occurrences(seq, x) == Cardinality({i \in 1..Len(seq) : seq[i] = x})

\* The issues the regex detector owes a chunk for rule `name` and string m:
\* one per match of the rule's pattern equal to m, if the rule applies to
\* the chunk's path and m is not excluded by signature.
ClaimedRegexIssues(chunk, name, m) ==
    LET rule == RegexRule(name)
    IN  IF /\ name \in rules_regexes
           /\ ~rule.path_pattern.set
              \/ PatternMatch(rule.path_pattern.pattern, chunk.file_path)
           /\ m \notin ConfiguredSignatures
           /\ generate_signature(m, chunk.file_path)
                  \notin ConfiguredSignatures
        THEN Occurrences(findall(rule.pattern, chunk.contents), m)
        ELSE 0

\* C14: for a chunk, the regex detector (run to its end, without a
\* configuration error) produces exactly one RegEx issue for each
\* (rule, match) pair such that the rule's path pattern is absent or
\* matches the chunk's file path and the match is not excluded by
\* signature; each issue carries the rule's name as issue_detail, so a
\* string matched by two rules yields two issues.
C14_OneRegexIssuePerRuleAndMatch ==
    (det_result.op = "scan_regex" /\ ~det_result.raised) =>
        LET found == det_result.issues
            chunk == det_result.chunk
            OfRule(name, m) ==
                {i \in 1..Len(found) : /\ found[i].issue_detail = name
                                       /\ found[i].matched_string = m}
        IN  /\ \A i \in 1..Len(found) :
                  /\ found[i].issue_type = "RegEx"
                  /\ found[i].chunk = chunk
                  /\ found[i].issue_detail \in rules_regexes
            /\ \A name \in DetectRuleNames :
                  \A m \in UNION {[1..n -> {"!", "g"}] : n \in 1..2}
                           \cup {found[i].matched_string : i \in 1..Len(found)} :
                      Cardinality(OfRule(name, m))
                          = ClaimedRegexIssues(chunk, name, m)

\* One string of a chunk was reported by two rules, while a signature is
\* excluded by the configuration.
C14_Witness ==
    /\ det_result.op = "scan_regex"
    /\ ~det_result.raised
    /\ ConfiguredSignatures # {}
    /\ \E i, j \in 1..Len(det_result.issues) :
          /\ det_result.issues[i].matched_string
                = det_result.issues[j].matched_string
          /\ det_result.issues[i].issue_detail
                # det_result.issues[j].issue_detail


(***************************************************************************)
(* Properties of the engine's issue list (specification Spec).             *)
(***************************************************************************)
\* C15: the issue list produced by a completed scan is deduplicated: it
\* contains no two issues with the same issue kind, issue detail, matched
\* string and originating chunk.
C15_IssuesDeduplicated ==
    completed =>
        \A i, j \in 1..Len(issues) :
            (/\ issues[i].issue_type = issues[j].issue_type
             /\ issues[i].issue_detail = issues[j].issue_detail
             /\ issues[i].matched_string = issues[j].matched_string
             /\ issues[i].chunk = issues[j].chunk) => i = j

\* The substrings of a text.
Substrings(text) ==
    {SubSeq(text, a, b) : a \in 1..Len(text), b \in 1..Len(text)}

\* How many times the detectors find, in a chunk, the string m as an issue
\* of the given kind and detail: the matches of the rule equal to m, or the
\* candidates equal to m (of either family) that score above their limit.
Detections(chunk, issue_type, issue_detail, m) ==
    IF signature_is_excluded(m, chunk.file_path) THEN 0
    ELSE IF issue_type = "RegEx"
    THEN IF regex /\ issue_detail \in rules_regexes
         THEN ClaimedRegexIssues(chunk, issue_detail, m)
         ELSE 0
    ELSE IF entropy /\ issue_detail = "None"
    THEN LET candidates == EntropyCandidates(chunk)
         IN  Cardinality({i \in 1..Len(candidates) :
                /\ candidates[i].string = m
                /\ ClaimedEntropyIssue(chunk, candidates[i].line, m,
                                       candidates[i].limit)})
    ELSE 0

\* C15 (amended): the issue list of a completed scan holds one issue per
\* detection and is not deduplicated: an issue appears in it as many times
\* as the detectors found its string in its chunk.
C15_OneIssuePerDetection ==
    completed =>
        \A n \in 1..NumChunks :
            \A issue_type \in {"RegEx", "Entropy"} :
                \A issue_detail \in RuleNames \cup {"None"} :
                    \A m \in Substrings(Chunk(n).contents) :
                        Occurrences(issues,
                            [Issue(issue_type, m, Chunk(n))
                                EXCEPT !.issue_detail = issue_detail])
                        = Detections(Chunk(n), issue_type, issue_detail, m)

\* A completed scan whose list holds the same issue twice.
C15_Witness ==
    /\ completed
    /\ \E i, j \in 1..Len(issues) : i # j /\ issues[i] = issues[j]
    /\ \E h \in Calls : outcome[h] = "returned"


(***************************************************************************)
(* Properties of the excluded signatures (specification SpecDetect).       *)
(***************************************************************************)
ConfiguredShapes ==
    LET signatures == exclude_signatures \o config_data
    IN  {signatures[i].shape : i \in 1..Len(signatures)}
MixedShapes == ConfiguredShapes = {"str", "table"}

\* C16: when the configured exclude-signatures (global options together
\* with repository configuration) hold both flat strings and tables with a
\* signature, resolving the excluded signatures fails with a configuration
\* error and stores no set; a configuration of one shape only resolves to
\* exactly the set of its signatures; and a resolution emits a deprecation
\* warning exactly when at least one flat string is present.
C16_MixedShapesRaiseOthersResolve ==
    /\ MixedShapes => excluded_signatures = Unresolved
    /\ excluded_signatures.set =>
          excluded_signatures.signatures = ConfiguredSignatures
    /\ (det_result.op = "excluded_signatures" /\ det_result.resolved) =>
          /\ det_result.raised <=> MixedShapes
          /\ ~det_result.raised =>
                /\ det_result.value = ConfiguredSignatures
                /\ excluded_signatures = Resolved(ConfiguredSignatures)
          /\ det_result.warned = IF "str" \in ConfiguredShapes THEN 1 ELSE 0

\* The property was read with flat strings in the options and tables in
\* the repository configuration, and raised after its warning.
C16_Witness ==
    /\ det_result.op = "excluded_signatures"
    /\ det_result.resolved
    /\ det_result.raised
    /\ warnings > 0
    /\ \A i \in 1..Len(exclude_signatures) :
          exclude_signatures[i].shape = "str"
    /\ \A i \in 1..Len(config_data) : config_data[i].shape = "table"
    /\ excluded_signatures = Unresolved

\* C17 as stated: once a producer is built without submodule inclusion,
\* should_scan rejects every path that begins with the path of a submodule,
\* and no chunk with such a path is yielded.
InSubmodule(file_path) == \E sub \in submodules : IsPrefix(sub, file_path)
C17_SubmodulePathsRejected ==
    (gpc \notin {"new", "raised"} /\ ~include_submodules) =>
        /\ (should_scan_result.called /\ InSubmodule(should_scan_result.path))
              => ~should_scan_result.value
        /\ \A i \in 1..Len(yielded) : ~InSubmodule(yielded[i].file_path)


\* The branches of the repository, and the ones `branches` names.
PresentBranches == {b \in BranchNameSet : Present(b)}
SelectedBranches == {branches[i] : i \in 1..Len(branches)}
BranchesSelected == git_branch = "None" /\ gpc \notin {"new", "select", "raised"}

\* C18 as stated: with no single branch configured, every local and every
\* remote-tracking branch is walked whenever one of either kind exists, and
\* HEAD alone only when the repository has no branch of either kind.
C18_HeadOnlyWithoutAnyBranch ==
    BranchesSelected =>
        IF PresentBranches # {}
        THEN SelectedBranches = PresentBranches
        ELSE branches = <<"HEAD">>

\* C18: with no single branch configured, every local and every
\* remote-tracking branch is walked whenever a local branch exists; without
\* a local branch HEAD alone is walked, remote-tracking branches or not; and
\* the producer ends only after it has gone through all of `branches`.
C18_HeadWithoutLocalBranch ==
    BranchesSelected =>
        /\ IF PresentBranches \cap LocalBranches # {}
           THEN /\ SelectedBranches = PresentBranches
                /\ Len(branches) = Cardinality(PresentBranches)
           ELSE branches = <<"HEAD">>
        /\ gpc = "done" => bidx = Len(branches) + 1

\* C18 witness: a repository with a remote-tracking branch and no local
\* branch has been scanned through HEAD alone.
C18_Witness ==
    /\ BranchesSelected
    /\ gpc = "done"
    /\ PresentBranches # {}
    /\ PresentBranches \cap LocalBranches = {}
    /\ branches = <<"HEAD">>
    /\ yielded # <<>>


\* The position in the chunk sequence of the chunk an issue was found in.
ChunkIndex(issue) == issue.chunk.metadata.commit

\* Every issue of `list` follows the issues of earlier chunks and, within
\* its chunk, no RegEx issue follows an Entropy issue.
RegexThenEntropyPerChunk(list) ==
    \A j, k \in 1..Len(list) :
        j < k =>
            /\ ChunkIndex(list[j]) <= ChunkIndex(list[k])
            /\ (ChunkIndex(list[j]) = ChunkIndex(list[k])
                /\ list[k].issue_type = "RegEx")
                  => list[j].issue_type = "RegEx"

BothDetectors == entropy /\ regex /\ rules_regexes # {}

\* C19: during a first scan with both detectors enabled, the RegEx issues of
\* a chunk are appended and emitted before its Entropy issues, and all issues
\* of a chunk before any issue of a later chunk.
C19_RegexBeforeEntropyPerChunk ==
    \A g \in Calls :
        (BothDetectors /\ mode[g] = "first") =>
            /\ RegexThenEntropyPerChunk(emitted[g])
            /\ scan_lock = g => RegexThenEntropyPerChunk(issues)

\* C19 witness: a first scan with both detectors enabled has emitted a RegEx
\* issue and an Entropy issue of one chunk and an issue of a later chunk.
C19_Witness ==
    \E g \in Calls :
        /\ BothDetectors
        /\ mode[g] = "first"
        /\ \E i, j, k \in 1..Len(emitted[g]) :
              /\ i < j /\ j < k
              /\ emitted[g][i].issue_type = "RegEx"
              /\ emitted[g][j].issue_type # "RegEx"
              /\ ChunkIndex(emitted[g][i]) = ChunkIndex(emitted[g][j])
              /\ ChunkIndex(emitted[g][j]) < ChunkIndex(emitted[g][k])


\* C20: while a first scan holds the lock, the issues emitted to its caller
\* are the issue list, in order, except between `append` and `yield`, where
\* the list holds one more issue: the one about to be emitted; and a first
\* scan that has returned has emitted the whole list.
C20_EmittedIsIssueList ==
    \A g \in Calls :
        /\ (scan_lock = g /\ mode[g] = "first") =>
              issues = IF pc[g] = "appended"
                       THEN Append(emitted[g], Head(pending[g]))
                       ELSE emitted[g]
        /\ (mode[g] = "first" /\ outcome[g] = "returned") =>
              emitted[g] = issues

\* C20 witness: a first scan is suspended after its second issue.
C20_Witness ==
    \E g \in Calls :
        /\ scan_lock = g
        /\ mode[g] = "first"
        /\ pc[g] = "suspended"
        /\ Len(emitted[g]) >= 2
        /\ emitted[g] = issues


\* The limit of a family as the claim computes it, in thousandths of a bit:
\* the override if one is configured, else sensitivity/100 times the bits
\* per character, with sensitivity 75 when none is configured.
ClaimedLimit(score, bits) ==
    IF score # NoScore THEN score
    ELSE LET sensitivity == IF entropy_sensitivity = NoSensitivity THEN 75
                            ELSE entropy_sensitivity
         IN  (sensitivity * bits * 1000) \div 100

\* C23 as stated: each limit read is sensitivity/100 times 6 (base64) or 4
\* (hex), with sensitivity 75 when none is configured, unless an override is
\* configured for that family, which is then the limit whatever its value.
C23_LimitScaledUnlessOverridden ==
    /\ det_result.op = "hex_entropy_limit" =>
          det_result.value = ClaimedLimit(hex_entropy_score, 4)
    /\ det_result.op = "b64_entropy_limit" =>
          det_result.value = ClaimedLimit(b64_entropy_score, 6)


\* The deprecated absolute score of a family is in use.
Overridden(score) == score \notin {NoScore, 0}
LimitsRead == "reads" \in DOMAIN det_result

\* C24 as stated: every read of a limit whose override is configured emits
\* one deprecation warning, so n reads on one engine emit n warnings.
C24_WarningPerAccess ==
    LimitsRead =>
        warnings = (IF Overridden(hex_entropy_score) THEN Reads.hex ELSE 0)
                   + (IF Overridden(b64_entropy_score) THEN Reads.b64 ELSE 0)

\* C24: the first read of a limit whose override is configured emits one
\* deprecation warning and later reads of it on the same engine emit none,
\* so n >= 1 reads emit one warning.
C24_WarningAtFirstAccessOnly ==
    LimitsRead =>
        warnings = (IF Overridden(hex_entropy_score) /\ Reads.hex >= 1
                    THEN 1 ELSE 0)
                   + (IF Overridden(b64_entropy_score) /\ Reads.b64 >= 1
                      THEN 1 ELSE 0)

\* C24 witness: the overridden hex limit has been read more than once, by
\* scan_entropy among others, and one warning was emitted.
C24_Witness ==
    /\ det_result.op = "scan_entropy"
    /\ Overridden(hex_entropy_score)
    /\ ~Overridden(b64_entropy_score)
    /\ Reads.hex >= 2
    /\ warnings = 1


\* A content pattern passes on a string, and a path pattern on a path, under
\* a match type: at the start for Match, anywhere for Search.
ContentPasses(re_match_type, pattern, scope) ==
    \E k \in 1..Len(scope) :
        /\ scope[k] \in pattern
        /\ re_match_type = "Match" => k = 1
PathPasses(re_match_type, pattern, path) ==
    \E k \in 0..Len(path) :
        /\ IsPrefix(pattern, SubSeq(path, k + 1, Len(path)))
        /\ re_match_type = "Match" => k = 0

\* C22: rule_matches raises for a rule whose scope is neither word nor
\* line; otherwise it returns true exactly when the content pattern passes
\* on the scope string (the matched string for word scope, the line for line
\* scope) under the rule's match type and, if the rule has a path pattern,
\* that pattern passes on the file path under the same match type.
C22_RuleMatchesContentAndPath ==
    det_result.op = "rule_matches" =>
        LET rule == det_result.rule
            scope == IF rule.re_match_scope = "Word" THEN det_result.string
                     ELSE det_result.line
        IN  IF rule.re_match_scope \notin {"Word", "Line"}
            THEN det_result.raised
            ELSE /\ ~det_result.raised
                 /\ det_result.value <=>
                      /\ ContentPasses(rule.re_match_type, rule.pattern,
                                       scope)
                      /\ rule.path_pattern.set =>
                            PathPasses(rule.re_match_type,
                                       rule.path_pattern.pattern,
                                       det_result.path)

\* C22 witness: a line-scope Search rule with a path pattern matched
\* through a line and a path that only pass away from their start.
C22_Witness ==
    /\ det_result.op = "rule_matches"
    /\ det_result.rule.re_match_scope = "Line"
    /\ det_result.rule.re_match_type = "Search"
    /\ det_result.rule.path_pattern.set
    /\ ~det_result.raised
    /\ det_result.value
    /\ det_result.line[1] \notin det_result.rule.pattern
    /\ ~IsPrefix(det_result.rule.path_pattern.pattern, det_result.path)
    /\ ~ContentPasses("Search", det_result.rule.pattern, det_result.string)


FromScannedPatch(chunk) ==
    LET paths == IF chunk.diff[1] = NoCommit THEN TreePaths(chunk.diff[2])
                 ELSE DiffPaths(chunk.diff[2])
    IN  \E i \in 1..Len(paths) : paths[i] = chunk.file_path

\* C25: a binary patch, a deleted file, a path should_scan rejects, a commit
\* without a local first parent and a branch that cannot be resolved yield
\* no chunk and raise no error (the producer raises only for a configured
\* single branch that is not found), and the items after them are processed:
\* when the producer ends, every commit with a first parent reached from a
\* resolvable branch has had each of its other patches yielded.
C25_PerItemSkipsNeverStop ==
    /\ gpc = "raised" => (git_branch # "None" /\ ~BranchGet(git_branch))
    /\ \A i \in 1..Len(yielded) : FromScannedPatch(yielded[i])
    /\ gpc = "done" =>
          \A c \in Commits :
              (BranchesReaching(c) # {} /\ HasFirstParent(c)) =>
                  YieldedPaths(parents[c][1], c) = DiffPaths(c)

\* C25 witness: the producer has ended after a branch that cannot be
\* resolved, a binary patch and a commit without a parent, with a chunk
\* yielded after each of them.
C25_Witness ==
    /\ gpc = "done"
    /\ Len(branches) = 2
    /\ ~BranchGet(branches[1])
    /\ \E i, j \in 1..Len(yielded) :
          /\ i < j
          /\ yielded[i].file_path = <<"a", "b">>
          /\ yielded[i].diff[1] # NoCommit
          /\ CommitDeltas(yielded[i].diff[2])[1].is_binary
          /\ yielded[j].diff[1] = NoCommit
          /\ ~HasFirstParent(yielded[j].diff[2])


\* The patch a chunk was made from.
PatchOf(chunk) ==
    LET deltas == IF chunk.diff[1] = NoCommit THEN TreeDeltas(chunk.diff[2])
                  ELSE CommitDeltas(chunk.diff[2])
    IN  deltas[CHOOSE i \in 1..Len(deltas) :
                  FilePath(deltas[i]) = chunk.file_path]

\* The first line of a text that begins with "+++" (0: none).
FirstPlusLine(text) ==
    LET plus == {i \in 1..Len(text) : text[i] \in PlusLines}
    IN  IF plus = {} THEN 0 ELSE CHOOSE i \in plus : \A j \in plus : i <= j

\* C26 as stated: when filenames are not scanned, the content of a chunk is
\* the patch text without everything up through the line following the
\* first line beginning with "+++", and a patch without such a line is
\* discarded: no chunk is yielded for it.
C26_HeaderThroughLineAfterMarker ==
    ~scan_filenames =>
        \A i \in 1..Len(yielded) :
            LET text == PatchOf(yielded[i]).text
                n == FirstPlusLine(text)
            IN  /\ n # 0
                /\ yielded[i].contents = SubSeq(text, n + 2, Len(text))

\* C26: when filenames are not scanned, the content of a chunk is the patch
\* text without everything up through the first line beginning with "+++";
\* a patch without such a line is all header, and its chunk is yielded with
\* empty content. When filenames are scanned the content is the patch text.
C26_HeaderThroughMarkerLine ==
    \A i \in 1..Len(yielded) :
        LET text == PatchOf(yielded[i]).text
            n == FirstPlusLine(text)
        IN  yielded[i].contents =
                IF scan_filenames THEN text
                ELSE IF n = 0 THEN <<>>
                ELSE SubSeq(text, n + 1, Len(text))

\* C26 witness: with filenames not scanned, a chunk of a patch with a "+++"
\* line and the empty chunk of a pure rename have been yielded.
C26_Witness ==
    /\ ~scan_filenames
    /\ \E i, j \in 1..Len(yielded) :
          /\ PatchOf(yielded[i]).text = NormalText
          /\ yielded[i].contents = <<"@@", "+line">>
          /\ PatchOf(yielded[j]).text = RenameText
          /\ yielded[j].contents = <<>>


\* The calls of one kind made for a (parent, commit) pair, by position.
CallsFor(call, pair) ==
    {i \in 1..Len(diff_log) :
        diff_log[i].call = call /\ diff_log[i].pair = pair}
LoggedPairs == {diff_log[i].pair : i \in 1..Len(diff_log)}

\* C27 as stated: in one run the diff of a (parent, commit) pair is computed
\* at most once, and so are its similarity detection and its patch
\* extraction; similarity detection comes after the diff and before the
\* patch extraction.
C27_DiffComputedOncePerPair ==
    \A pair \in LoggedPairs :
        /\ Cardinality(CallsFor("diff", pair)) <= 1
        /\ Cardinality(CallsFor("find_similar", pair)) <= 1
        /\ Cardinality(CallsFor("_iter_diff_index", pair)) <= 1
        /\ \A i \in CallsFor("find_similar", pair) :
              /\ \E j \in CallsFor("diff", pair) : j < i
              /\ \A j \in CallsFor("_iter_diff_index", pair) : i < j


\* ---- C28 ----
\* A memoized should_scan answer is the answer the body of should_scan
\* computes from the fields as they are now.
MemoizedIsComputed ==
    \A path \in DOMAIN should_scan_cache :
        should_scan_cache[path] = should_scan(path).value
\* An initialized field keeps its value in every step.
InitializedFieldsKept ==
    /\ included_paths.set => included_paths' = included_paths
    /\ excluded_paths.set => excluded_paths' = excluded_paths

\* C28 as stated: each of _included_paths and _excluded_paths is assigned
\* at most once in the engine's lifetime, construction included, never
\* changes afterwards, and every memoized should_scan answer equals the
\* answer computed from the current fields.
C28_FieldsWrittenAtMostOnce ==
    /\ [](field_writes.included <= 1 /\ field_writes.excluded <= 1)
    /\ [][InitializedFieldsKept]_vars
    /\ []MemoizedIsComputed

\* C28: construction assigns _included_paths at most twice and
\* _excluded_paths at most three times (the property's own initialization,
\* load_repo's merge of the repository's patterns, filter_submodules), all
\* before the first should_scan call; a field assigned after construction
\* is assigned once, by its property; an initialized field never changes
\* in a later step, and every memoized should_scan answer equals the answer
\* computed from the current fields.
C28_FieldsFixedAfterConstruction ==
    /\ [](field_writes.included <= 2 /\ field_writes.excluded <= 3)
    /\ [][/\ InitializedFieldsKept
          /\ gpc # "new" =>
               /\ field_writes'.included <= field_writes.included + 1
               /\ field_writes'.excluded <= field_writes.excluded + 1
               /\ included_paths.set =>
                    field_writes'.included = field_writes.included
               /\ excluded_paths.set =>
                    field_writes'.excluded = field_writes.excluded]_vars
    /\ [](should_scan_cache # EmptyCache => gpc # "new")
    /\ []MemoizedIsComputed
C28_Witness ==
    /\ field_writes.excluded = 3
    /\ should_scan_cache # EmptyCache
    /\ \E path \in DOMAIN should_scan_cache : ~should_scan_cache[path]
    /\ \E path \in DOMAIN should_scan_cache : should_scan_cache[path]


\* ---- C29 ----
\* C29 as stated: a scan in progress on one engine instance never blocks a
\* scan of a different instance: no thread is held at `with self._scan_lock`
\* of its own instance while the scan of another instance holds a lock.
C29_ScanNeverWaitsForOtherEngine ==
    \A e \in Engines :
        thread_pc[e] = "lock" => scan_lock \in {NoCall, e}
====
